---- MODULE Spec2Model ----
(***************************************************************************)
(* Leaflet Routing Machine: the waypoint Plan (src/src/plan.ts and the     *)
(* Plan of dist/leaflet-routing-machine.js), the Routing Control and the   *)
(* OSRMv1 route client over the corslite transport.                        *)
(*                                                                         *)
(* The program is single threaded: every action below is one handler run   *)
(* to completion (a public method call, a DOM or map event, a timer        *)
(* expiry, a transport event), including every listener it fires           *)
(* synchronously.  Handlers are written as functions from a program state  *)
(* s = [plan, control, router] to the state they leave behind.             *)
(***************************************************************************)
EXTENDS Integers, Sequences, FiniteSets, TLC

\* ------------------------------------------------------------------ bounds
MaxPos   == 1   \* distinct map positions 1..MaxPos (0 is "no position")
MaxLen   == 3   \* longest waypoint list explored
MaxStack == 3   \* nesting depth at which the engine raises RangeError
MaxCount == 3   \* largest value of the control's request counter explored
MaxHost  == 2   \* longest waypoint list a caller passes in one call
MaxGeom  == 2   \* most coordinates in the geometry of one route step
MaxLegs  == 2   \* most legs of a response route
MaxTemplate == 5   \* most characters of an enumerated template
MaxCoords == 2   \* most coordinates of a sequence sent through the polyline codec
MaxRoute == 4   \* most coordinates of the route of a line on the map
MaxLanes == 6   \* most lanes of an intersection
MaxInFlight == 2   \* most unanswered requests of a router a host uses on its own
MaxAlts == 3   \* most routes of one response
MaxSeconds == 90000   \* longest duration formatted, in seconds (above one day)

NoPos == 0
Positions == 1..MaxPos
\* The locations a router can be asked about: the positions the plans of
\* the model use, and two at least
Locations == 1..(IF MaxPos > 2 THEN MaxPos ELSE 2)
Origin == 1     \* the position L.latLng([0, 0])
NoName == "undefined"

Min2(a, b) == IF a < b THEN a ELSE b
Max2(a, b) == IF a > b THEN a ELSE b

VARIABLES plan, control, router, host

vars == <<plan, control, router, host>>

\* The program state the handlers transform: the library's objects and
\* what the host application holds.
State == [plan |-> plan, control |-> control, router |-> router, host |-> host]

Commit(s) ==
    /\ plan' = s.plan
    /\ control' = s.control
    /\ router' = s.router
    /\ host' = s.host

\* Bounds of the exploration: list length and request counter.
Bounded(s) ==
    /\ Len(s.plan.waypoints) <= MaxLen
    /\ s.control.requestCount <= MaxCount

\* A handler that ends in state s, within the bounds
CommitBounded(s) == Bounded(s) /\ Commit(s)

\* ---------------------------------------------------------------- Waypoint
\* new Waypoint(latLng, name)
Waypoint(latLng, name) == [latLng |-> latLng, name |-> name]

\* Waypoints a caller hands to the plan: new Waypoint(latLng) of a position
\* (the callers' waypoints lie at Origin) or of null, without a name.
InputWaypoints == {Waypoint(p, NoName) : p \in {NoPos, Origin}}

RECURSIVE SeqsUpTo(_, _)
SeqsUpTo(S, n) ==
    IF n = 0 THEN {<<>>}
    ELSE LET shorter == SeqsUpTo(S, n - 1)
         IN shorter \cup {Append(q, x) : q \in {r \in shorter : Len(r) = n - 1}, x \in S}

\* -------------------------------------------------------- Array.prototype
\* Array.prototype.splice(start, deleteCount, ...items): start is 0-based,
\* negative counts from the end, both are clamped to the array.
SpliceStart(len, start) ==
    IF start < 0 THEN Max2(len + start, 0) ELSE Min2(start, len)

SpliceCount(len, actualStart, deleteCount) ==
    Min2(Max2(deleteCount, 0), len - actualStart)

ArraySplice(a, start, deleteCount, items) ==
    LET len == Len(a)
        from == SpliceStart(len, start)
        cnt == SpliceCount(len, from, deleteCount)
    IN SubSeq(a, 1, from) \o items \o SubSeq(a, from + cnt + 1, len)

\* Array.prototype.reverse
RECURSIVE ArrayReverse(_)
ArrayReverse(a) ==
    IF a = <<>> THEN <<>> ELSE Append(ArrayReverse(Tail(a)), Head(a))

\* ===================================================================
\* Route client: OSRMv1 over corslite
\* ===================================================================

\* An error object handed to a route callback.  `null` marks the absent
\* error (callback(null, routes)).  `status` is a number for failures
\* raised by the client and the service's code string otherwise; `client`
\* tells which, so that the two are never compared with each other.
\* `type` is the object's own `type` property: OSRMv1 builds its error
\* objects without one (the transport event is kept under `target`).
NullErr ==
    [null |-> TRUE, client |-> TRUE, status |-> 0, message |-> "",
     type |-> NoName, target |-> NoName]

ClientErr(status, message, target) ==
    [null |-> FALSE, client |-> TRUE, status |-> status, message |-> message,
     type |-> NoName, target |-> target]

ServiceErr(code) ==
    [null |-> FALSE, client |-> FALSE, status |-> code, message |-> NoName,
     type |-> NoName, target |-> NoName]

\* The routes array handed to a callback: the request whose response it
\* was parsed from and properties.isSimplified; id 0 is "no routes".
NoRoutes == [id |-> 0, isSimplified |-> FALSE]

\* Response texts the service can send with a successful HTTP status.
\*   json     - JSON.parse accepts the text
\*   code     - the `code` member of the parsed object
\*   complete - the object has the `waypoints` and `routes` members that
\*              _toWaypoints and _convertRoute read
\*   locations - the `location` of each of its `waypoints`, kept for a
\*              control with waypointMode 'snap', <<>> otherwise
ResponseTexts ==
    { [json |-> TRUE,  code |-> "Ok",      complete |-> TRUE,  locations |-> <<>>],
      [json |-> TRUE,  code |-> "Ok",      complete |-> FALSE, locations |-> <<>>],
      [json |-> TRUE,  code |-> "NoRoute", complete |-> FALSE, locations |-> <<>>],
      [json |-> FALSE, code |-> NoName,    complete |-> FALSE, locations |-> <<>>] }

\* responseText of a request nothing has been received for
NoText == [json |-> FALSE, code |-> NoName, complete |-> FALSE, locations |-> <<>>]

\* The error objects of the failures OSRMv1.route detects itself
TimeoutError == ClientErr(-1, "OSRM request timed out.", NoName)

TransportError(errType) == ClientErr(-1, "HTTP request failed", errType)

\* A parse failure reported with the status of a processing exception
ParseError_asProcessing == ClientErr(-3, "Error parsing OSRM response", NoName)

ParseError == ClientErr(-2, "Error parsing OSRM response", NoName)

ProcessingError == ClientErr(-3, "exception", NoName)

\* Transport failures corslite reports as callback(err, null): the `type`
\* of the object passed as err ("error" event, or the XMLHttpRequest
\* itself for a failing HTTP status, which has no type).
TransportFailures == {"error", NoName}

\* ===================================================================
\* Routing Control (dist/leaflet-routing-machine.js, module 4)
\* ===================================================================

\* Plan.isReady
isReady(s) == \A i \in 1..Len(s.plan.waypoints) : s.plan.waypoints[i].latLng # NoPos

\* Plan.getWaypoints
getWaypoints(s) == [i \in 1..Len(s.plan.waypoints) |-> s.plan.waypoints[i]]

\* A getWaypoints that hands out the plan's own array
returnedArray_internal(s) == [taken |-> TRUE, own |-> FALSE, items |-> <<>>]

\* The array object Plan.getWaypoints returns, as its caller holds it: a
\* new array (`own`) with the elements of the plan's list.  An array that
\* is not the caller's own is the plan's array itself.
returnedArray(s) == [taken |-> TRUE, own |-> TRUE, items |-> getWaypoints(s)]

\* The elements of the array the host holds
ArrayItems(s) ==
    IF s.host.snapshot.own THEN s.host.snapshot.items ELSE s.plan.waypoints

\* The host calls getWaypoints and keeps the result
hostGetWaypoints(s) ==
    [s EXCEPT !.host.snapshot = returnedArray(s), !.host.acted = "get"]

\* The host changes the array it holds with Array.prototype.push, pop or
\* reverse: this changes the object the reference leads to.
ArrayMutations == {"push", "pop", "reverse"}

Mutated(a, kind) ==
    CASE kind = "push" -> Append(a, Waypoint(Origin, NoName))
      [] kind = "pop" -> SubSeq(a, 1, Len(a) - 1)
      [] OTHER -> ArrayReverse(a)

hostMutate(s, kind) ==
    IF s.host.snapshot.own
    THEN [s EXCEPT !.host.snapshot.items = Mutated(@, kind),
                   !.host.acted = "mutate"]
    ELSE [s EXCEPT !.plan.waypoints = Mutated(@, kind),
                   !.host.acted = "mutate"]

\* A control that keeps routing errors to itself
fireControl_noError(s, type, r) ==
    IF type = "routingerror" THEN s
    ELSE [s EXCEPT !.control.fired = Append(@, [type |-> type, request |-> r])]

\* Evented.fire on the control: the event is recorded with the request it
\* is about.
fireControl(s, type, r) ==
    [s EXCEPT !.control.fired = Append(@, [type |-> type, request |-> r])]

\* Control._clearLines: removes _line and the _alternatives lines.  The
\* field control.line is the routes array the displayed lines were built
\* from (id 0: nothing displayed); _updateLines builds the line and the
\* alternatives from one array and _clearLines removes both.
_clearLines(s) == [s EXCEPT !.control.line = 0]

\* Control._updateLines
_updateLines(s, routes) == [s EXCEPT !.control.line = routes.id]

\* OSRMv1._toWaypoints for the response of request r: the location of
\* each waypoint of the response with the name of the input waypoint
_toWaypoints(s, r) ==
    LET req == s.router.reqs[r]
    IN  [i \in 1..Len(req.response.locations) |->
            Waypoint(req.response.locations[i], req.wps[i].name)]

\* Evented.on / Evented.off of the control's _onWaypointsChanged on the
\* plan's 'waypointschanged': control.subscribed counts the listeners
plan_on(s) == [s EXCEPT !.control.subscribed = @ + 1]

plan_off(s) == [s EXCEPT !.control.subscribed = IF @ > 0 THEN @ - 1 ELSE 0]

RECURSIVE setWaypoints(_, _)

\* A control that stays subscribed while it sets the snapped waypoints
snapWaypoints_subscribed(s, routes) ==
    IF s.control.waypointMode = "snap"
    THEN setWaypoints(s, _toWaypoints(s, routes.id))
    ELSE s

\* The end of Control._routeSelected: with waypointMode 'snap' the
\* waypoints of the selected route, route.waypoints, which _toWaypoints
\* made of the response, are set while the control does not listen
snapWaypoints(s, routes) ==
    IF s.control.waypointMode = "snap"
    THEN plan_on(setWaypoints(plan_off(s), _toWaypoints(s, routes.id)))
    ELSE s

\* Control._routeSelected, the 'routeselected' listener: the route of
\* routes array `routes` is selected
_routeSelected(s, routes) ==
    snapWaypoints(_updateLines([s EXCEPT !.control.selectedRoute = routes], routes),
                  routes)

\* Itinerary._selectRoute: fires 'routeselected'
_selectRoute(s, r, routes) ==
    _routeSelected(fireControl(s, "routeselected", r), routes)

\* Itinerary.setAlternatives: _clearAlts, keeps the routes and selects the
\* first one, which fires 'routeselected'.
setAlternatives(s, r, routes) ==
    _selectRoute([s EXCEPT !.control.routes = routes], r, routes)

\* Control._updateLineCallback.  Returns the state left behind and whether
\* the call threw: reading this._selectedRoute.routesIndex throws a
\* TypeError while no route has been selected yet.
_updateLineCallback(s, err, routes) ==
    IF err.null
    THEN IF s.control.selectedRoute.id = 0
         THEN [s |-> s, threw |-> TRUE]
         ELSE [s |-> _updateLines(s, routes), threw |-> FALSE]
    ELSE IF err.type # "abort"
         THEN [s |-> _clearLines(s), threw |-> FALSE]
         ELSE [s |-> s, threw |-> FALSE]

\* The callback Control._onZoomEnd passes to route()
onZoomEndCallback(s, err, routes) ==
    IF err.null
    THEN _updateLineCallback(
             [s EXCEPT !.control.routes.isSimplified = routes.isSimplified,
                       !.control.selectedRoute.isSimplified = routes.isSimplified],
             err, routes)
    ELSE [s |-> s, threw |-> FALSE]

\* The callback Control.route hands to the router, for request r
\* (lines 786-815).  ts and options are the values the closure captured.
\* A request a host made on the router itself has the host's callback,
\* which leaves the library alone.
routeCallback(s, r, err, routes) ==
    LET req == s.router.reqs[r]
        s1 == [s EXCEPT !.control.pendingRequest = 0]
    IN  IF req.callback = "host" THEN [s |-> s, threw |-> FALSE]
        ELSE IF req.callback = "updateLine" THEN _updateLineCallback(s1, err, routes)
        ELSE IF req.callback = "zoom" THEN onZoomEndCallback(s1, err, routes)
        ELSE IF req.ts = s1.control.requestCount
        THEN LET s2 == _clearLines(s1)
             IN  IF ~err.null /\ err.type # "abort"
                 THEN [s |-> fireControl(s2, "routingerror", r), threw |-> FALSE]
                 ELSE IF routes.id = 0
                 THEN [s |-> s2, threw |-> TRUE]
                 ELSE IF ~req.geometryOnly
                 THEN [s |-> setAlternatives(fireControl(s2, "routesfound", r),
                                             r, routes),
                       threw |-> FALSE]
                 ELSE [s |-> _routeSelected(s2, routes), threw |-> FALSE]
        ELSE [s |-> s1, threw |-> FALSE]

\* A client that hands on the plan's waypoints as they are when the
\* response arrives
inputWaypoints_shared(s, r) == getWaypoints(s)

\* route.inputWaypoints of the routes parsed from the response to request
\* r: `wps`, the copies OSRMv1.route made of the waypoints when it sent the
\* request (new Waypoint(wp.latLng, wp.name, wp.options) for each)
inputWaypoints(s, r) == s.router.reqs[r].wps

\* callback.call(context, err, routes) as seen from the route client: runs
\* the control's callback for request r, counts the invocation and records
\* it (the arguments, whether the request was the latest one, whether the
\* call changed the displayed lines).
Invoked(s, r, err, routes, res) ==
    LET call == [err |-> err, routes |-> routes.id,
                 inputWaypoints |-> IF err.null THEN inputWaypoints(s, r) ELSE <<>>,
                 latest |-> (s.router.reqs[r].ts = s.control.requestCount),
                 changedLine |-> (res.s.control.line # s.control.line)]
    IN  [s |-> [res.s EXCEPT !.router.reqs[r].calls = Append(@, call),
                             !.router.reqs[r].nCalls = @ + 1],
         threw |-> res.threw]

Invoke(s, r, err, routes) ==
    Invoked(s, r, err, routes, routeCallback(s, r, err, routes))

\* OSRMv1._saveHintData: replaces the hint cache by the hints of this
\* response, keyed by the location of the request's waypoints.  The hint
\* tokens of the response to request r are written r, 0 is no entry.
\* The merged variant keeps the entries of earlier responses.
_saveHintData_merged(s, r) ==
    LET wps == s.router.reqs[r].wps
    IN  [s EXCEPT !.router.hints =
            [p \in Locations |->
                IF \E i \in 1..Len(wps) : wps[i].latLng = p THEN r ELSE @[p]]]

_saveHintData(s, r) ==
    LET wps == s.router.reqs[r].wps
    IN  [s EXCEPT !.router.hints =
            [p \in Locations |->
                IF \E i \in 1..Len(wps) : wps[i].latLng = p THEN r ELSE 0]]

\* A _routeDone that saves the hints before it looks at the code
_routeDone_savesHintsFirst(s, r, response) ==
    LET req == s.router.reqs[r]
        s1 == _saveHintData(s, r)
    IN  IF response.code # "Ok"
        THEN Invoke(s1, r, ServiceErr(response.code), NoRoutes)
        ELSE IF ~response.complete
        THEN [s |-> s, threw |-> TRUE]
        ELSE Invoke(s1, r, NullErr,
                    [id |-> r,
                     isSimplified |-> (~req.geometryOnly \/ req.simplifyGeometry)])

\* OSRMv1._routeDone.  Returns the state and whether it threw (a response
\* without the members it reads, or a callback that threw).
_routeDone(s, r, response) ==
    LET req == s.router.reqs[r]
    IN  IF response.code # "Ok"
        THEN Invoke(s, r, ServiceErr(response.code), NoRoutes)
        ELSE IF ~response.complete
        THEN [s |-> s, threw |-> TRUE]
        ELSE Invoke(_saveHintData(s, r), r, NullErr,
                    [id |-> r,
                     isSimplified |-> (~req.geometryOnly \/ req.simplifyGeometry)])

\* Nothing that arrives is dropped
discardLate_never(s, r) == FALSE

\* The test `if (!timedOut)` of the function OSRMv1.route passes to
\* corslite: the timeout function has run, so what arrives now is dropped.
discardLate(s, r) == s.router.reqs[r].timedOut

\* try { this._routeDone(...) } catch (ex) { error.status = -3; ... } of
\* that function, `done` being what _routeDone left behind
catchRouteDone(r, done) ==
    IF done.threw
    THEN Invoke(done.s, r, ProcessingError, NoRoutes).s
    ELSE done.s

\* The function OSRMv1.route passes to corslite (lines 2885-2924), called
\* with (err, resp).  hasErr: err is set; errType: err.type;
\* responseText: resp.responseText.
corsliteCallback(s, r, hasErr, errType, responseText) ==
    LET s1 == [s EXCEPT !.router.reqs[r].timer =
                            IF @ = "pending" THEN "cleared" ELSE @]
    IN  IF discardLate(s1, r)
        THEN s1     \* xhr.abort() on a request that has ended: no event
        ELSE IF hasErr
        THEN Invoke(s1, r, TransportError(errType), NoRoutes).s
        ELSE IF ~responseText.json
        THEN Invoke(s1, r, ParseError, NoRoutes).s
        ELSE catchRouteDone(r, _routeDone(s1, r, responseText))

\* XMLHttpRequest.abort() on the handle of request r: a request that is
\* still open ends with an 'abort' event, which corslite's onabort passes
\* to the callback synchronously; on an ended request nothing happens.
abort(s, r) ==
    IF s.router.reqs[r].xhr = "open"
    THEN corsliteCallback([s EXCEPT !.router.reqs[r].xhr = "aborted"],
                          r, TRUE, "abort", NoName)
    ELSE s

\* The timeout function of OSRMv1.route (lines 2869-2875)
timeoutExpired(s, r) ==
    Invoke([s EXCEPT !.router.reqs[r].timedOut = TRUE,
                     !.router.reqs[r].timer = "fired"],
           r, TimeoutError, NoRoutes).s

\* OSRMv1.route: starts the timeout, copies the waypoints and sends the
\* request.  ts and options.callback belong to the closure Control.route
\* passes as callback.  The new request is the last one of router.reqs.
OSRMv1_route(s, waypoints, ts, options) ==
    [s EXCEPT !.router.reqs = Append(@,
        [ts |-> ts,
         callback |-> options.callback,
         geometryOnly |-> options.geometryOnly,
         simplifyGeometry |-> options.simplifyGeometry,
         wps |-> waypoints,
         timer |-> "pending",
         timedOut |-> FALSE,
         xhr |-> "open",
         response |-> NoText,
         nCalls |-> 0,
         calls |-> <<>>])]

\* Options of the route() calls the control makes.
DefaultOptions == [callback |-> "default", geometryOnly |-> FALSE, simplifyGeometry |-> FALSE]
DragOptions == [callback |-> "updateLine", geometryOnly |-> TRUE, simplifyGeometry |-> FALSE]
ZoomOptions == [callback |-> "zoom", geometryOnly |-> TRUE, simplifyGeometry |-> FALSE]

\* Control.route, lines 772-775: aborts the pending request
abortPending(s) ==
    IF s.control.pendingRequest # 0
    THEN [abort(s, s.control.pendingRequest) EXCEPT !.control.pendingRequest = 0]
    ELSE s

\* A route() that announces a request also when it sends none
routeIfReady_announced(s, ts, options) ==
    LET id == Len(s.router.reqs) + 1
    IN  IF isReady(s)
        THEN [OSRMv1_route(fireControl(s, "routingstart", id),
                           getWaypoints(s), ts, options)
                  EXCEPT !.control.pendingRequest = id]
        ELSE fireControl(s, "routingstart", id)

\* Control.route, lines 779-816: sends the request with counter value ts
\* when the plan is ready
routeIfReady(s, ts, options) ==
    LET id == Len(s.router.reqs) + 1
    IN  IF isReady(s)
        THEN [OSRMv1_route(fireControl(s, "routingstart", id),
                           getWaypoints(s), ts, options)
                  EXCEPT !.control.pendingRequest = id]
        ELSE s

\* A route() that counts only the calls that send a request
route_whenReady(s, options) ==
    IF isReady(s)
    THEN routeIfReady(abortPending([s EXCEPT !.control.requestCount = @ + 1]),
                      s.control.requestCount + 1, options)
    ELSE abortPending(s)

\* Control.route
route(s, options) ==
    routeIfReady(abortPending([s EXCEPT !.control.requestCount = @ + 1]),
                 s.control.requestCount + 1, options)

\* Control._onWaypointsChanged, the plan's 'waypointschanged' listener
clearUnlessReady(s) == IF ~isReady(s) THEN _clearLines(s) ELSE s

_onWaypointsChanged(s) ==
    clearUnlessReady(IF s.control.autoRoute THEN route(s, DefaultOptions) ELSE s)

\* setTimeout: the identifier of the new timer, unused by any live timer
NewTimer(s) ==
    CHOOSE t \in 1..(Cardinality(s.control.timeouts) + 1) : t \notin s.control.timeouts

\* A listener that schedules a timer on every drag event
onWaypointDrag_always(s) ==
    LET t == NewTimer(s)
    IN  [s EXCEPT !.control.timer = t, !.control.timeouts = @ \cup {t}]

\* The 'waypointdrag' listener of Control._setupRouteDragging
onWaypointDrag(s) ==
    IF s.control.timer = 0
    THEN LET t == NewTimer(s)
         IN  [s EXCEPT !.control.timer = t, !.control.timeouts = @ \cup {t}]
    ELSE s

\* The function the 'waypointdrag' listener schedules, for timer t
dragTimerExpired(s, t) ==
    [route([s EXCEPT !.control.timeouts = @ \ {t}], DragOptions)
        EXCEPT !.control.timer = 0]

\* The 'waypointdragend' listener of Control._setupRouteDragging
onWaypointDragEnd(s) ==
    LET s1 == IF s.control.timer # 0
              THEN [s EXCEPT !.control.timeouts = @ \ {s.control.timer},
                             !.control.timer = 0]
              ELSE s
    IN  route(s1, DefaultOptions)

\* ===================================================================
\* Plan (src/src/plan.ts: impl "ts"; dist/leaflet-routing-machine.js,
\* module 16: impl "dist")
\* ===================================================================

\* Plan._updateGeocoders / Plan.updateGeocoders: one element per waypoint,
\* element k bound to index k (_createGeocoder(i) closes over i).
_updateGeocoders(s) ==
    [s EXCEPT !.plan.geocoderElems = [k \in 1..Len(s.plan.waypoints) |-> k]]

\* An event of the plan with the members of its data object the model
\* keeps: `waypoints` of 'waypointschanged' (getWaypoints() when it fires),
\* `index` of 'waypointsspliced' and of the drag events, `latlng` of
\* 'waypointdrag' and 'waypointdragend'.  The members an event does not
\* have are written <<>>, 0 and NoPos.
PlanEvent(s, type, index, latlng) ==
    [type |-> type,
     waypoints |-> IF type = "waypointschanged" THEN getWaypoints(s) ELSE <<>>,
     index |-> index,
     latlng |-> latlng]

\* The control's listeners of 'waypointschanged', n of them
RECURSIVE listenersRun(_, _)
listenersRun(s, n) ==
    IF n = 0 THEN s ELSE listenersRun(_onWaypointsChanged(s), n - 1)

\* Evented.fire on the plan: records the event and runs its listeners (the
\* plan's own 'waypointsspliced' listener once createGeocoders subscribed
\* it, and the listeners of an attached Routing Control).
fire(s, type, index, latlng) ==
    LET s1 == IF s.plan.observed
              THEN [s EXCEPT !.plan.fired =
                        Append(@, PlanEvent(s, type, index, latlng))]
              ELSE s
    IN  CASE type = "waypointsspliced" ->
                IF s1.plan.created THEN _updateGeocoders(s1) ELSE s1
          [] type = "waypointschanged" ->
                IF s1.control.attached THEN listenersRun(s1, s1.control.subscribed)
                ELSE s1
          [] type = "waypointdrag" ->
                IF s1.control.attached /\ s1.plan.routeWhileDragging
                THEN onWaypointDrag(s1) ELSE s1
          [] type = "waypointdragend" ->
                IF s1.control.attached /\ s1.plan.routeWhileDragging
                THEN onWaypointDragEnd(s1) ELSE s1
          [] OTHER -> s1

\* A plan that announces a splice whatever its start index is
fireSpliced_always(s, spliced, startIndex) ==
    fire(s, "waypointsspliced", startIndex, NoPos)

\* Plan._fireChanged(...args) / Plan.fireChanged(startIndex, ...): nargs is
\* the number of arguments of the call.
fireSpliced(s, spliced, startIndex) ==
    IF spliced THEN fire(s, "waypointsspliced", startIndex, NoPos) ELSE s

_fireChanged(s, nargs, startIndex) ==
    fireSpliced(fire(s, "waypointschanged", 0, NoPos),
                IF s.plan.impl = "dist"
                THEN nargs >= 2
                ELSE nargs >= 1 /\ startIndex # 0,
                startIndex)

\* Plan._updateMarkers / Plan.updateMarkers: the markers of the waypoints
\* that have a position; a marker is written as the index its drag
\* handlers were hooked with.  dist keeps a null entry (0) for a waypoint
\* without position, plan.ts pushes created markers only.
_updateMarkers(s) ==
    LET wps == s.plan.waypoints
        aligned == [i \in 1..Len(wps) |-> IF wps[i].latLng # NoPos THEN i ELSE 0]
    IN  IF ~s.plan.map THEN s
        ELSE [s EXCEPT !.plan.markers =
                IF s.plan.impl = "dist" THEN aligned
                ELSE SelectSeq(aligned, LAMBDA i : i # 0)]

\* A floor of one waypoint instead of two
belowFloor_one(wps) == Len(wps) < 1

\* The condition of the loop that keeps at least two waypoints
belowFloor(wps) == Len(wps) < 2

\* The arguments of the recursive call of that loop after (length, 0):
\* dist passes null, which becomes new Waypoint(null); plan.ts passes
\* nothing.
floorWaypoints(impl) ==
    IF impl = "dist" THEN <<Waypoint(NoPos, NoName)>> ELSE <<>>

\* Plan.spliceWaypoints(startIndex, deleteCount, ...newWaypoints) at call
\* depth `depth`.  A call nested deeper than the engine's stack allows
\* raises RangeError, which unwinds every frame: the callers' remaining
\* statements (marker update, events) do not run.
\* The statements of spliceWaypoints after the floor loop
afterFloor(s, nargs, startIndex) ==
    IF s.plan.thrown # "none" THEN s
    ELSE _fireChanged(_updateMarkers(s), nargs, startIndex)

RECURSIVE spliceWaypoints(_, _, _, _, _)
RECURSIVE floorLoop(_, _)
floorLoop(s, depth) ==
    IF s.plan.thrown # "none" \/ ~belowFloor(s.plan.waypoints) THEN s
    ELSE floorLoop(spliceWaypoints(s, Len(s.plan.waypoints), 0,
                                   floorWaypoints(s.plan.impl), depth + 1),
                   depth)

spliceWaypoints(s, startIndex, deleteCount, newWaypoints, depth) ==
    IF depth > MaxStack THEN [s EXCEPT !.plan.thrown = "RangeError"]
    ELSE LET s1 == [s EXCEPT !.plan.waypoints =
                        ArraySplice(@, startIndex, deleteCount, newWaypoints)]
             s2 == IF depth = 0 /\ s.plan.observed
                   THEN [s1 EXCEPT !.plan.preFloor = Len(s1.plan.waypoints),
                                   !.plan.startIndex = startIndex]
                   ELSE s1
         IN  afterFloor(floorLoop(s2, depth), 2 + Len(newWaypoints), startIndex)

\* Plan.setWaypoints
setWaypoints(s, wps) ==
    spliceWaypoints(s, 0, Len(s.plan.waypoints), wps, 0)

\* Plan.createGeocoders: creates the elements and subscribes
\* _updateGeocoders to 'waypointsspliced'.
createGeocoders(s) == _updateGeocoders([s EXCEPT !.plan.created = TRUE])

\* Click on the add-waypoint button (createGeocoders)
addWaypoint(s) ==
    spliceWaypoints(s, Len(s.plan.waypoints), 0,
                    IF s.plan.impl = "dist" THEN <<Waypoint(NoPos, NoName)>> ELSE <<>>,
                    0)

\* Click on the reverse button (createGeocoders)
reverseWaypoints(s) ==
    setWaypoints([s EXCEPT !.plan.waypoints = ArrayReverse(@)],
                 ArrayReverse(s.plan.waypoints))

\* The 'delete' listener of the geocoder element bound to the 0-based
\* index i (_createGeocoder)
deleteWaypoint(s, i) ==
    IF i > 0 \/ Len(s.plan.waypoints) > 2
    THEN spliceWaypoints(s, i, 1, <<>>, 0)
    ELSE spliceWaypoints(s, i, 1,
            <<Waypoint(IF s.plan.impl = "dist" THEN NoPos ELSE Origin, NoName)>>, 0)

\* The drag handlers Plan._hookWaypointEvents(m, i, trackMouseMove) creates
\* for the 0-based waypoint index i.  An access to a waypoint or a geocoder
\* element that does not exist throws a TypeError and ends the handler.
\* drag.latlng is the position of the temporary marker and lines of
\* _dragNewWaypoint, NoPos when there are none.
NoDrag == [mode |-> "none", index |-> 0, latlng |-> NoPos]

dragStart(s, i) == fire(s, "waypointdragstart", i, NoPos)

drag(s, i, latlng) ==
    IF i + 1 > Len(s.plan.waypoints)
    THEN [s EXCEPT !.plan.thrown = "TypeError"]
    ELSE fire([s EXCEPT !.plan.waypoints[i + 1].latLng = latlng],
              "waypointdrag", i, latlng)

dragEnd(s, i, latlng) ==
    IF i + 1 > Len(s.plan.waypoints)
    THEN [s EXCEPT !.plan.thrown = "TypeError"]
    ELSE LET s1 == [s EXCEPT !.plan.waypoints[i + 1].latLng = latlng,
                             !.plan.waypoints[i + 1].name = ""]
             \* dist: _geocoderElems is undefined until createGeocoders;
             \* plan.ts: geocoderElements starts as an empty array
             hasElems == s.plan.impl = "ts" \/ s.plan.created
         IN  IF hasElems /\ i + 1 > Len(s1.plan.geocoderElems)
             THEN [s1 EXCEPT !.plan.thrown = "TypeError"]
             ELSE _fireChanged(fire(s1, "waypointdragend", i, latlng), 0, 0)

\* mouseMove of _hookWaypointEvents(m, i, true)
mouseMove(s, i, latlng) ==
    IF i + 1 > Len(s.plan.markers) \/ s.plan.markers[i + 1] = 0
    THEN [s EXCEPT !.plan.thrown = "TypeError"]
    ELSE drag(s, i, latlng)

\* mouseUp of _hookWaypointEvents(m, i, true)
mouseUp(s, i, latlng) == dragEnd([s EXCEPT !.plan.drag = NoDrag], i, latlng)

\* Plan.dragNewWaypoint: _hookWaypointEvents(marker, newWpIndex, true)
\* after the splice, which hooks the map handlers and calls dragStart
trackNewWaypoint(s, newWpIndex) ==
    IF s.plan.thrown # "none" THEN s
    ELSE dragStart([s EXCEPT !.plan.drag =
                       [mode |-> "track", index |-> newWpIndex, latlng |-> NoPos]],
                   newWpIndex)

\* Plan._dragNewWaypoint(newWpIndex, initialLatLng): the temporary marker
\* and lines are put on the map, mouseMove and mouseUp are hooked
_dragNewWaypoint(s, newWpIndex, initialLatLng) ==
    [s EXCEPT !.plan.drag =
        [mode |-> "temp", index |-> newWpIndex, latlng |-> initialLatLng]]

\* mouseUp of Plan._dragNewWaypoint without its two map.off calls
newWaypointMouseUp_hooked(s, newWpIndex, latlng) ==
    spliceWaypoints([s EXCEPT !.plan.drag.latlng = NoPos], newWpIndex, 0,
                    <<Waypoint(latlng, NoName)>>, 0)

\* Plan.dragNewWaypoint(e) with e.afterIndex and e.latlng
dragNewWaypoint(s, afterIndex, latlng) ==
    LET newWpIndex == afterIndex + 1
    IN  IF s.plan.routeWhileDragging
        THEN trackNewWaypoint(
                 spliceWaypoints(s, newWpIndex, 0, <<Waypoint(latlng, NoName)>>, 0),
                 newWpIndex)
        ELSE _dragNewWaypoint(s, newWpIndex, latlng)

\* mouseMove of Plan._dragNewWaypoint(newWpIndex, initialLatLng)
newWaypointMouseMove(s, latlng) == [s EXCEPT !.plan.drag.latlng = latlng]

\* mouseUp of Plan._dragNewWaypoint(newWpIndex, initialLatLng)
newWaypointMouseUp(s, newWpIndex, latlng) ==
    spliceWaypoints([s EXCEPT !.plan.drag = NoDrag], newWpIndex, 0,
                    <<Waypoint(latlng, NoName)>>, 0)

\* Plan.onAdd (the plan is put on the map) followed, when the plan has a
\* geocoder (options.geocoder), by the Plan.createGeocoders call of
\* Control.onAdd
onAdd(s) ==
    LET s1 == _updateMarkers([s EXCEPT !.plan.map = TRUE])
    IN  IF s.plan.geocoder THEN createGeocoders(s1) ELSE s1

\* Control.onAdd, lines 551-553: if (this.options.autoRoute) this.route()
routeOnAdd(s) ==
    IF s.control.attached /\ s.control.autoRoute
    THEN route(s, DefaultOptions) ELSE s

\* Control._onZoomEnd once router.requiresMoreDetail has found a waypoint
\* of the selected route outside the map bounds (outOfBounds)
_onZoomEnd(s, outOfBounds) ==
    IF s.control.selectedRoute.id = 0 THEN s
    ELSE IF s.control.selectedRoute.isSimplified /\ outOfBounds
    THEN route(s, ZoomOptions)
    ELSE s

\* ===================================================================
\* Initial state and actions
\* ===================================================================

\* A request has ended when its transport has ended and its timeout is no
\* longer pending: no function of its closure can run any more, and its
\* record is dropped when the next handler starts.  The invocations
\* recorded in `calls` and the events in control.fired are those of the
\* last handler; nCalls counts all invocations of a request's callback.
Ended ==
    [ts |-> 0, callback |-> "default", geometryOnly |-> FALSE,
     simplifyGeometry |-> FALSE, wps |-> <<>>, timer |-> "cleared",
     timedOut |-> FALSE, xhr |-> "ended", response |-> NoText, nCalls |-> 0,
     calls |-> <<>>]

RECURSIVE Collected(_)
Collected(reqs) ==
    IF reqs = <<>> THEN <<>>
    ELSE LET req == reqs[Len(reqs)]
         IN  Append(Collected(SubSeq(reqs, 1, Len(reqs) - 1)),
                    IF req.xhr # "open" /\ req.timer # "pending"
                    THEN Ended ELSE [req EXCEPT !.calls = <<>>])

\* Start of a handler: nothing thrown yet.  For a plan observed on its
\* own the handler's name, the events it fires, the start index of its
\* spliceWaypoints call and the list length that splice leaves before the
\* floor is enforced are recorded as well.
Begin(op) ==
    LET s == [State EXCEPT !.router.reqs = Collected(@),
                           !.control.fired = <<>>,
                           !.host.acted = "none"]
    IN  IF plan.observed
        THEN [s EXCEPT !.plan.fired = <<>>, !.plan.thrown = "none",
                       !.plan.lastOp = op, !.plan.preFloor = -1,
                       !.plan.startIndex = 0]
        ELSE [s EXCEPT !.plan.thrown = "none"]

\* geocoder: options.geocoder is set, so that the geocoder elements with
\* the add, reverse and delete controls are created with the plan.
InitPlan(impl, rwd, geocoder, observed) ==
    [impl |-> impl, phase |-> "new", waypoints |-> <<>>, map |-> FALSE,
     markers |-> <<>>, created |-> FALSE, geocoderElems |-> <<>>,
     routeWhileDragging |-> rwd, geocoder |-> geocoder, drag |-> NoDrag,
     observed |-> observed,
     fired |-> <<>>, thrown |-> "none", lastOp |-> "none", preFloor |-> -1,
     startIndex |-> 0]

InitControl(attached, autoRoute) ==
    [attached |-> attached, autoRoute |-> autoRoute,
     requestCount |-> 0, pendingRequest |-> 0, line |-> 0,
     selectedRoute |-> NoRoutes, routes |-> NoRoutes,
     timer |-> 0, timeouts |-> {}, fired |-> <<>>,
     waypointMode |-> "connect", subscribed |-> 0]

InitRouter == [hints |-> [p \in Locations |-> 0], reqs |-> <<>>]

\* The host holds no array yet.  `acted` tells what the host did to the
\* array it holds in the last step ("get", "mutate"; "none" when the step
\* was a handler of the library).
NoSnapshot == [taken |-> FALSE, own |-> TRUE, items |-> <<>>]

\* host.call is the call of a function of the library the host makes
\* directly: the function's name ("none" before the call), its arguments
\* and what it returned.
NoResult == [thrown |-> "none", value |-> "undefined"]

NoCall == [fn |-> "none", args |-> <<>>, result |-> NoResult]

InitHost == [snapshot |-> NoSnapshot, acted |-> "none", call |-> NoCall]

\* The waypoint lists a host passes: any list for a plan observed on its
\* own; under a Routing Control, where only the presence of a position
\* matters, no, one or two positioned waypoints with an empty name (the
\* plan pads the first two and is not ready, the third makes it ready).
RouteWaypoint == Waypoint(Origin, "")

RouteLists == {<<>>, <<RouteWaypoint>>, <<RouteWaypoint, RouteWaypoint>>}

HostLists ==
    IF control.attached THEN RouteLists
    ELSE SeqsUpTo(InputWaypoints, MaxHost)

\* The positions of pointer events: any position for a plan observed on
\* its own, the position of RouteWaypoint otherwise.
DragTargets == IF plan.observed THEN Positions ELSE {Origin}

Idle == plan.phase = "ready" /\ plan.drag.mode = "none"

\* A Routing Control is put on the map as soon as it is built
\* (L.Routing.control(options).addTo(map)), before the host uses it.
OnMap == control.attached => plan.map

\* A plan of either implementation on its own, no Routing Control.
InitPlanOnly ==
    /\ \E impl \in {"dist", "ts"}, rwd \in BOOLEAN, geocoder \in BOOLEAN :
          plan = InitPlan(impl, rwd, geocoder, TRUE)
    /\ control = InitControl(FALSE, FALSE)
    /\ router = InitRouter
    /\ host = InitHost

\* A plan whose host keeps the array that getWaypoints returned: the dist
\* Plan with routeWhileDragging (drag-insert splices at once) and the
\* plan.ts Plan without (drag-insert splices on release).
InitSnapshot ==
    /\ \E impl \in {"dist", "ts"} :
          plan = InitPlan(impl, impl = "dist", FALSE, FALSE)
    /\ control = InitControl(FALSE, FALSE)
    /\ router = InitRouter
    /\ host = InitHost

\* A Routing Control with its own Plan (dist) and OSRMv1 router.
Init ==
    /\ \E rwd \in BOOLEAN : plan = InitPlan("dist", rwd, FALSE, FALSE)
    /\ \E autoRoute \in BOOLEAN : control = InitControl(TRUE, autoRoute)
    /\ router = InitRouter
    /\ host = InitHost

\* new Plan(waypoints, options) / Plan.initialize; a constructor that
\* throws leaves no plan.  Control.initialize subscribes to the plan after
\* it is built, so no control listener runs here.
constructed(s, attached) ==
    [s EXCEPT !.plan.phase = IF s.plan.thrown = "none" THEN "ready" ELSE "failed",
              !.control.attached = attached,
              !.control.subscribed = IF attached THEN 1 ELSE 0]

Initialize ==
    /\ plan.phase = "new"
    /\ \E wps \in HostLists :
          CommitBounded(
              constructed(
                  setWaypoints([Begin("initialize") EXCEPT !.control.attached = FALSE],
                               wps),
                  control.attached))

\* Control.onAdd (routes when autoRoute is set, then adds the plan to the
\* map and creates the geocoders), or Plan.onAdd for a plan on its own.
OnAdd ==
    /\ Idle /\ ~plan.map
    /\ CommitBounded(onAdd(routeOnAdd(Begin("onAdd"))))

SetWaypoints ==
    /\ Idle /\ OnMap
    /\ \E wps \in HostLists :
          CommitBounded(setWaypoints(Begin("setWaypoints"), wps))

SpliceWaypoints ==
    /\ Idle
    /\ \E startIndex \in -1..MaxLen, deleteCount \in 0..MaxLen,
          wps \in SeqsUpTo(InputWaypoints, 1) :
          \* of the counts that reach past the end of the list, the first
          /\ deleteCount <= Len(plan.waypoints)
                                - SpliceStart(Len(plan.waypoints), startIndex) + 1
          /\ CommitBounded(spliceWaypoints(Begin("spliceWaypoints"), startIndex,
                                           deleteCount, wps, 0))

AddWaypoint ==
    /\ Idle /\ plan.created
    /\ CommitBounded(addWaypoint(Begin("addWaypoint")))

DeleteWaypoint ==
    /\ Idle /\ plan.created
    /\ \E k \in 1..Len(plan.geocoderElems) :
          CommitBounded(deleteWaypoint(Begin("deleteWaypoint"),
                                       plan.geocoderElems[k] - 1))

ReverseWaypoints ==
    /\ Idle /\ plan.created
    /\ CommitBounded(reverseWaypoints(Begin("reverseWaypoints")))

\* Leaflet marker drag: 'dragstart', then 'drag' events, then 'dragend'.
MarkerDragStart ==
    /\ Idle /\ plan.map
    /\ \E k \in 1..Len(plan.markers) :
          /\ plan.markers[k] # 0
          /\ LET i == plan.markers[k] - 1
             IN  CommitBounded(dragStart([Begin("dragstart") EXCEPT !.plan.drag =
                                             [mode |-> "marker", index |-> i,
                                              latlng |-> NoPos]], i))

MarkerDrag ==
    /\ plan.drag.mode = "marker"
    /\ \E latlng \in DragTargets :
          CommitBounded(drag(Begin("drag"), plan.drag.index, latlng))

MarkerDragEnd ==
    /\ plan.drag.mode = "marker"
    /\ \E latlng \in DragTargets :
          CommitBounded(dragEnd([Begin("dragend") EXCEPT !.plan.drag = NoDrag],
                                plan.drag.index, latlng))

\* A touch on the displayed route line ('linetouched', Control._hookEvents)
\* or a direct Plan.dragNewWaypoint call for a plan on its own.
DragNewWaypoint ==
    /\ Idle /\ plan.map /\ isReady(State)
    /\ control.attached => control.line # 0
    /\ \E afterIndex \in 0..(Len(plan.waypoints) - 2), latlng \in DragTargets :
          CommitBounded(dragNewWaypoint(Begin("dragNewWaypoint"), afterIndex, latlng))

MouseMove ==
    /\ plan.drag.mode \in {"track", "temp"}
    /\ \E latlng \in DragTargets :
          CommitBounded(IF plan.drag.mode = "track"
                        THEN mouseMove(Begin("mousemove"), plan.drag.index, latlng)
                        ELSE newWaypointMouseMove(Begin("mousemove"), latlng))

MouseUp ==
    /\ plan.drag.mode \in {"track", "temp"}
    /\ \E latlng \in DragTargets :
          CommitBounded(IF plan.drag.mode = "track"
                        THEN mouseUp(Begin("mouseup"), plan.drag.index, latlng)
                        ELSE newWaypointMouseUp(Begin("dragNewWaypoint"),
                                                plan.drag.index, latlng))

\* Control.route() called by the host
Route ==
    /\ plan.phase = "ready" /\ OnMap
    /\ CommitBounded(route(Begin("route"), DefaultOptions))

\* 'zoomend' of the map
ZoomEnd ==
    /\ plan.phase = "ready" /\ plan.map
    /\ control.selectedRoute.id # 0
    /\ CommitBounded(_onZoomEnd(Begin("zoomend"), TRUE))

\* The timer of the 'waypointdrag' listener expires
DragTimerExpires ==
    \E t \in control.timeouts :
        CommitBounded(dragTimerExpired(Begin("dragtimer"), t))

\* The response of request r arrives with a successful HTTP status
\* (corslite loaded)
ResponseLoads ==
    \E r \in 1..Len(router.reqs), responseText \in ResponseTexts :
        /\ router.reqs[r].xhr = "open"
        /\ Commit(corsliteCallback(
                      [Begin("load") EXCEPT !.router.reqs[r].xhr = "loaded",
                                            !.router.reqs[r].response = responseText],
                      r, FALSE, NoName, responseText))

\* The transport of request r fails (corslite onerror, or loaded with a
\* failing HTTP status)
TransportFails ==
    \E r \in 1..Len(router.reqs), type \in TransportFailures :
        /\ router.reqs[r].xhr = "open"
        /\ Commit(corsliteCallback(
                      [Begin("error") EXCEPT !.router.reqs[r].xhr = "failed"],
                      r, TRUE, type, NoName))

\* The timeout of request r expires
TimeoutExpires ==
    \E r \in 1..Len(router.reqs) :
        /\ router.reqs[r].timer = "pending"
        /\ Commit(timeoutExpired(Begin("timeout"), r))

\* The host calls plan.getWaypoints() of a plan it has put on the map
GetWaypoints ==
    /\ Idle /\ plan.map
    /\ Commit(hostGetWaypoints(Begin("getWaypoints")))

\* The host changes the array getWaypoints returned
MutateSnapshot ==
    /\ host.snapshot.taken
    /\ \E kind \in ArrayMutations :
          /\ kind = "push" => Len(ArrayItems(State)) < MaxLen
          /\ kind = "pop" => Len(ArrayItems(State)) > 0
          /\ Commit(hostMutate(Begin("mutate"), kind))

NextPlanOnly ==
    \/ Initialize
    \/ OnAdd
    \/ SetWaypoints
    \/ SpliceWaypoints
    \/ AddWaypoint
    \/ DeleteWaypoint
    \/ ReverseWaypoints
    \/ MarkerDragStart
    \/ MarkerDrag
    \/ MarkerDragEnd
    \/ DragNewWaypoint
    \/ MouseMove
    \/ MouseUp

Next ==
    \/ Initialize
    \/ OnAdd
    \/ SetWaypoints
    \/ MarkerDragStart
    \/ MarkerDrag
    \/ MarkerDragEnd
    \/ Route
    \/ ZoomEnd
    \/ DragTimerExpires
    \/ ResponseLoads
    \/ TransportFails
    \/ TimeoutExpires

NextSnapshot ==
    \/ Initialize
    \/ OnAdd
    \/ SetWaypoints
    \/ SpliceWaypoints
    \/ DragNewWaypoint
    \/ MouseMove
    \/ MouseUp
    \/ GetWaypoints
    \/ MutateSnapshot

SpecPlan == InitPlanOnly /\ [][NextPlanOnly]_vars

SpecSnapshot == InitSnapshot /\ [][NextSnapshot]_vars

Spec == Init /\ [][Next]_vars

\* ===================================================================
\* Properties
\* ===================================================================

\* The plan operations that change the list through spliceWaypoints
PlanOps ==
    {"initialize", "setWaypoints", "spliceWaypoints", "addWaypoint",
     "deleteWaypoint", "reverseWaypoints", "dragNewWaypoint"}

\* C1: whenever one of the plan operations (construction, setWaypoints,
\* spliceWaypoints, add, delete, reverse, drag-insert) has returned, the
\* waypoint list has at least two elements.  An operation that throws has
\* not returned.
C1_FloorAfterReturn ==
    (plan.lastOp \in PlanOps /\ plan.thrown = "none") => Len(plan.waypoints) >= 2

\* C1, its case: a delete left one waypoint and the floor was restored
\* before the operation returned.
C1_FloorRestored ==
    /\ plan.lastOp = "deleteWaypoint"
    /\ plan.thrown = "none"
    /\ plan.preFloor = 1
    /\ Len(plan.waypoints) = 2

\* C2: every spliceWaypoints call returns, and when the splice itself left
\* fewer than two waypoints the list has been filled up at its end with
\* waypoints without position to exactly two.
C2_FloorTerminates ==
    plan.preFloor >= 0 =>
        /\ plan.thrown = "none"
        /\ plan.preFloor < 2 =>
              /\ Len(plan.waypoints) = 2
              /\ \A i \in (plan.preFloor + 1)..2 :
                    plan.waypoints[i] = Waypoint(NoPos, NoName)

\* C2 for the Plan of dist/leaflet-routing-machine.js alone, whose loop
\* passes null as the waypoint to add.
C2_FloorTerminatesDist ==
    plan.impl = "dist" => C2_FloorTerminates

\* C2, its case in the dist Plan: a plan built from the empty list.
C2_BuiltFromEmpty ==
    /\ plan.impl = "dist"
    /\ plan.lastOp = "initialize"
    /\ plan.preFloor = 0
    /\ Len(plan.waypoints) = 2

\* ------------------------------------------------------------------
\* Routing Control and route client
\* ------------------------------------------------------------------

Requests == 1..Len(router.reqs)

\* The events of a type the last handler fired about request r
EventsOf(r, type) ==
    {k \in 1..Len(control.fired) :
        control.fired[k] = [type |-> type, request |-> r]}

\* An invocation that reports one of the routing errors: transport
\* failure or timeout (-1), parse failure (-2) or a service code.
RoutingError(q, c) ==
    /\ ~c.err.null
    /\ q.xhr # "aborted"
    /\ c.err.client => c.err.status \in {-1, -2}

\* C3: a callback invocation of a request that is no longer the latest one
\* (a later route() call has raised the counter) applies nothing: it
\* changes no displayed line and no routesfound, routeselected or
\* routingerror event is fired for the request.
C3_StaleResultNeverApplied ==
    \A r \in Requests : \A k \in 1..Len(router.reqs[r].calls) :
        ~router.reqs[r].calls[k].latest =>
            /\ ~router.reqs[r].calls[k].changedLine
            /\ \A type \in {"routesfound", "routeselected", "routingerror"} :
                  EventsOf(r, type) = {}

\* C3 for the requests without a callback of their own, whose results pass
\* the counter test of Control.route.
C3_StaleDefaultResultNeverApplied ==
    \A r \in Requests : \A k \in 1..Len(router.reqs[r].calls) :
        (router.reqs[r].callback = "default" /\ ~router.reqs[r].calls[k].latest) =>
            /\ ~router.reqs[r].calls[k].changedLine
            /\ \A type \in {"routesfound", "routeselected", "routingerror"} :
                  EventsOf(r, type) = {}

\* C4: at most one request of the control that has not been aborted is in
\* flight (its transfer is open).
C4_OneRequestInFlight ==
    Cardinality({r \in Requests : router.reqs[r].xhr = "open"}) <= 1

\* C4 for the requests whose result is still awaited: in flight and not
\* timed out.  There is at most one, and it is the one _pendingRequest
\* holds.
C4_OneRequestAwaited ==
    \A r \in Requests :
        (router.reqs[r].xhr = "open" /\ ~router.reqs[r].timedOut) =>
            control.pendingRequest = r

\* Two transfers open at the same time
C4_TwoInFlight ==
    \E r1, r2 \in Requests :
        r1 # r2 /\ router.reqs[r1].xhr = "open" /\ router.reqs[r2].xhr = "open"

\* C5: a request whose timer expired has had its callback invoked once,
\* with the timeout error (status -1, 'OSRM request timed out.'); a
\* response or transport error arriving afterwards invokes nothing.  A
\* request whose response arrived first has its timer cancelled and never
\* gets the timeout error.
C5_Timeout ==
    \A r \in Requests :
        LET q == router.reqs[r]
        IN  /\ q.timedOut =>
                /\ q.timer = "fired"
                /\ q.nCalls = 1
                /\ q.calls # <<>> =>
                      /\ q.xhr = "open"
                      /\ Len(q.calls) = 1
                      /\ q.calls[1].err = TimeoutError
                      /\ q.calls[1].routes = 0
            /\ q.timer = "fired" => q.timedOut
            /\ q.xhr # "open" => q.timer # "pending"
            /\ \A k \in 1..Len(q.calls) :
                  q.calls[k].err.message = "OSRM request timed out." =>
                      q.timedOut /\ q.timer = "fired"

\* C5, its case: the response (or a transport error) of a request arrived
\* after its timeout had been reported, and nothing was invoked.
C5_LateResponseDiscarded ==
    \E r \in Requests :
        /\ router.reqs[r].timedOut
        /\ router.reqs[r].xhr \in {"loaded", "failed"}
        /\ router.reqs[r].nCalls = 1
        /\ router.reqs[r].calls = <<>>

C7_AbortIsNoOp ==
    \A r \in Requests :
        router.reqs[r].xhr = "aborted" =>
            /\ EventsOf(r, "routingerror") = {}
            /\ \A k \in 1..Len(router.reqs[r].calls) :
                  ~router.reqs[r].calls[k].changedLine

\* C7 for the 'routingerror' event alone
C7_AbortFiresNoError ==
    \A r \in Requests :
        router.reqs[r].xhr = "aborted" => EventsOf(r, "routingerror") = {}

\* C8: an error built by the route client has status -1 for a transport
\* failure and for a timeout, -2 (and the parse message) for a response
\* text JSON.parse rejects, -3 for an exception while a parsed response is
\* processed, and comes without routes; each of these failures invokes the
\* callback with its error.
C8_ClientFailureStatus ==
    \A r \in Requests :
        LET q == router.reqs[r]
            loaded == q.xhr = "loaded" /\ ~q.timedOut
        IN  /\ \A k \in 1..Len(q.calls) :
                  (~q.calls[k].err.null /\ q.calls[k].err.client) =>
                      /\ q.calls[k].routes = 0
                      /\ q.calls[k].err.status \in {-1, -2, -3}
                      /\ q.calls[k].err.status = -1 <=>
                            (q.xhr \in {"failed", "aborted"} \/ q.timedOut)
                      /\ q.calls[k].err.status = -2 <=> (loaded /\ ~q.response.json)
                      /\ q.calls[k].err.status = -3 <=> (loaded /\ q.response.json)
                      /\ q.calls[k].err.status = -2 =>
                            q.calls[k].err.message = "Error parsing OSRM response"
            /\ (q.xhr = "failed" /\ ~q.timedOut) =>
                  /\ Len(q.calls) = 1
                  /\ q.calls[1].err = TransportError(q.calls[1].err.target)
            /\ (loaded /\ ~q.response.json) =>
                  /\ Len(q.calls) = 1
                  /\ q.calls[1].err = ParseError
            /\ (loaded /\ q.response.json /\ q.response.code = "Ok"
                       /\ ~q.response.complete) =>
                  /\ Len(q.calls) = 1
                  /\ q.calls[1].err = ProcessingError

\* C8, its case: a response text that is no JSON has arrived.
C8_ParseFailureReported ==
    \E r \in Requests :
        /\ router.reqs[r].xhr = "loaded"
        /\ ~router.reqs[r].response.json
        /\ Len(router.reqs[r].calls) = 1
        /\ router.reqs[r].calls[1].err = ParseError

\* C9: a parsed response whose code is not 'Ok' invokes the callback once,
\* with an error whose status is that code and without routes, and leaves
\* the hint cache as it was; routes are handed over only for code 'Ok'.
C9_NonOkCode ==
    /\ [](\A r \in Requests : \A k \in 1..Len(router.reqs[r].calls) :
             router.reqs[r].calls[k].routes # 0 =>
                 /\ router.reqs[r].xhr = "loaded"
                 /\ router.reqs[r].response.code = "Ok")
    /\ [][\A r \in 1..Len(router.reqs) :
             (/\ router.reqs[r].xhr = "open"
              /\ r <= Len(router.reqs')
              /\ router.reqs'[r].xhr = "loaded"
              /\ ~router.reqs'[r].timedOut
              /\ router.reqs'[r].response.json
              /\ router.reqs'[r].response.code # "Ok") =>
                 /\ Len(router.reqs'[r].calls) = 1
                 /\ ~router.reqs'[r].calls[1].err.null
                 /\ ~router.reqs'[r].calls[1].err.client
                 /\ router.reqs'[r].calls[1].err.status = router.reqs'[r].response.code
                 /\ router.reqs'[r].calls[1].routes = 0
                 /\ router.hints' = router.hints]_vars

\* C9, its case: a 'NoRoute' response has arrived while the hint cache
\* held the hints of an earlier response.
C9_NoRouteReported ==
    \E r \in Requests :
        /\ router.reqs[r].xhr = "loaded"
        /\ ~router.reqs[r].timedOut
        /\ router.reqs[r].response.code = "NoRoute"
        /\ Len(router.reqs[r].calls) = 1
        /\ \E p \in Positions : router.hints[p] # 0

\* The last request sent: a default request that carries the current
\* counter and is the one _pendingRequest holds
FinalRequestPending ==
    /\ router.reqs # <<>>
    /\ control.pendingRequest = Len(router.reqs)
    /\ router.reqs[Len(router.reqs)].callback = "default"
    /\ router.reqs[Len(router.reqs)].ts = control.requestCount
    /\ router.reqs[Len(router.reqs)].xhr = "open"

\* C10 as the specification states it: every expiry of the drag timer
\* sends one route request, and the end of a drag sends a route request.
C10_RequestPerExpiryAndDragEnd ==
    /\ [][DragTimerExpires => Len(router.reqs') = Len(router.reqs) + 1]_vars
    /\ [][(MarkerDragEnd /\ plan.routeWhileDragging) =>
              Len(router.reqs') > Len(router.reqs)]_vars

\* C10: with routeWhileDragging at most one drag timer is pending, and a
\* drag event while one is pending schedules nothing; an expiry makes one
\* route() call, which sends one drag-time request when every waypoint has
\* a position and none otherwise; the end of a drag cancels the pending
\* timer for good and calls route(), which leaves a default request with
\* the current counter pending when every waypoint has a position and
\* sends none otherwise; the result of a default request that is still the
\* latest one is the one displayed.
C10_DragThrottling ==
    /\ [](/\ Cardinality(control.timeouts) <= 1
          /\ control.timer # 0 <=> control.timeouts = {control.timer}
          /\ control.timeouts # {} => plan.drag.mode = "marker")
    /\ [][(MarkerDrag /\ control.timeouts # {}) =>
              control.timeouts' = control.timeouts]_vars
    /\ [][DragTimerExpires =>
              /\ control.requestCount' = control.requestCount + 1
              /\ control.timeouts' = {}
              /\ IF isReady(State)
                 THEN /\ Len(router.reqs') = Len(router.reqs) + 1
                      /\ router.reqs'[Len(router.reqs')].callback = "updateLine"
                      /\ control.pendingRequest' = Len(router.reqs')
                 ELSE Len(router.reqs') = Len(router.reqs)]_vars
    /\ [][(MarkerDragEnd /\ plan.routeWhileDragging) =>
              /\ control.timeouts' = {}
              /\ control.requestCount' > control.requestCount
              /\ IF isReady(State')
                 THEN Len(router.reqs') > Len(router.reqs) /\ FinalRequestPending'
                 ELSE Len(router.reqs') = Len(router.reqs)]_vars
    /\ [](\A r \in Requests : \A k \in 1..Len(router.reqs[r].calls) :
             (/\ router.reqs[r].callback = "default"
              /\ router.reqs[r].calls[k].latest
              /\ router.reqs[r].calls[k].err.null) =>
                 control.line = r /\ control.selectedRoute.id = r)

\* C10, its case: during a drag a timer has expired and sent a drag-time
\* request, and the next drag event has scheduled the next timer.
C10_RequestWhileDragging ==
    /\ plan.drag.mode = "marker"
    /\ control.timeouts # {}
    /\ \E r \in Requests :
          router.reqs[r].callback = "updateLine" /\ router.reqs[r].xhr = "open"

\* ------------------------------------------------------------------
\* Plan: events, replacement, snapshots and drags
\* ------------------------------------------------------------------

\* The events of a type the last handler of the plan fired, in order
FiredOf(type) == SelectSeq(plan.fired, LAMBDA e : e.type = type)

\* The last handler made a spliceWaypoints call, which has returned
SpliceReturned == plan.preFloor >= 0 /\ plan.thrown = "none"

\* Every 'waypointschanged' event of the last handler carries the list the
\* handler left behind, and there is at least one.
ChangedCarriesResult ==
    /\ FiredOf("waypointschanged") # <<>>
    /\ \A k \in 1..Len(FiredOf("waypointschanged")) :
          FiredOf("waypointschanged")[k].waypoints = plan.waypoints

Padded(wps) ==
    wps \o [i \in 1..Max2(2 - Len(wps), 0) |-> Waypoint(NoPos, NoName)]

\* What setWaypoints(wps) called now leaves behind
AfterSetWaypoints(wps) == setWaypoints(Begin("setWaypoints"), wps)

\* C12: setWaypoints(list), called in any state of a plan and with any
\* list, returns and leaves exactly the elements of list in their order,
\* followed by padding without position when list has fewer than two, and
\* leaves the same state as spliceWaypoints(0, current length, ...list).
C12_SetWaypointsReplaces ==
    Idle =>
        \A wps \in HostLists :
            /\ AfterSetWaypoints(wps).plan.thrown = "none"
            /\ AfterSetWaypoints(wps).plan.waypoints = Padded(wps)
            /\ AfterSetWaypoints(wps) =
                   spliceWaypoints(Begin("setWaypoints"), 0, Len(plan.waypoints),
                                   wps, 0)

\* C12 for the calls that return: the list is replaced as stated.
C12_SetWaypointsReplacesOnReturn ==
    Idle =>
        \A wps \in HostLists :
            AfterSetWaypoints(wps).plan.thrown = "none" =>
                /\ AfterSetWaypoints(wps).plan.waypoints = Padded(wps)
                /\ AfterSetWaypoints(wps) =
                       spliceWaypoints(Begin("setWaypoints"), 0,
                                       Len(plan.waypoints), wps, 0)

\* C12, a case: setWaypoints has replaced a list of three by a shorter list.
C12_ListReplaced ==
    /\ plan.lastOp = "setWaypoints"
    /\ plan.thrown = "none"
    /\ plan.preFloor = 2
    /\ Len(plan.waypoints) = 2

\* C13: getWaypoints returns an array of its own.  A step in which the
\* host changes the array it got (push, pop, reverse) leaves the plan's
\* list as it is, and a step of the plan (setWaypoints, spliceWaypoints,
\* drag-insert, or any other handler) leaves the elements of the array
\* the host holds and their order as they are.
C13_SnapshotNotAliased ==
    /\ [][host'.acted = "mutate" => plan'.waypoints = plan.waypoints]_vars
    /\ [][(host.snapshot.taken /\ host'.acted = "none") =>
              ArrayItems(State)' = ArrayItems(State)]_vars

\* C13, its case: the host holds an array it has changed, the plan has
\* then replaced its list, and the two differ.
C13_SnapshotOutlivesSplice ==
    /\ host.snapshot.taken
    /\ host.acted = "none"
    /\ plan.thrown = "none"
    /\ Len(plan.waypoints) = 3
    /\ Len(ArrayItems(State)) = 1

\* The types of a sequence of events
TypesOf(events) == [k \in 1..Len(events) |-> events[k].type]

\* A step that leaves the length of the list and every waypoint other
\* than the one at the 0-based index i as they are
OthersUnchanged(i) ==
    /\ Len(plan'.waypoints) = Len(plan.waypoints)
    /\ \A j \in 1..Len(plan.waypoints) :
          j # i + 1 => plan'.waypoints[j] = plan.waypoints[j]

\* A 'drag' event of the marker of waypoint i: the handler returns, the
\* waypoint has the event's position, 'waypointdrag' alone has fired.
DragStepOk(i) ==
    /\ plan'.thrown = "none"
    /\ OthersUnchanged(i)
    /\ TypesOf(plan'.fired) = <<"waypointdrag">>
    /\ plan'.fired[1].index = i
    /\ plan'.waypoints[i + 1] =
          [plan.waypoints[i + 1] EXCEPT !.latLng = plan'.fired[1].latlng]
    /\ plan'.drag = plan.drag

\* The release of the marker of waypoint i: the handler returns, the
\* waypoint has the event's position and the empty name, 'waypointdragend'
\* and then 'waypointschanged' have fired, the drag is over.
DragEndStepOk(i) ==
    /\ plan'.thrown = "none"
    /\ OthersUnchanged(i)
    /\ TypesOf(plan'.fired) = <<"waypointdragend", "waypointschanged">>
    /\ plan'.fired[1].index = i
    /\ plan'.waypoints[i + 1] = Waypoint(plan'.fired[1].latlng, "")
    /\ plan'.fired[2].waypoints = plan'.waypoints
    /\ plan'.drag = NoDrag

\* C14: a marker drag of waypoint i goes from idle over dragging to
\* released and ends in no other way; every 'drag' event sets the
\* position of waypoint i and fires 'waypointdrag' only; the release sets
\* the position, clears the name and fires 'waypointdragend' and then
\* 'waypointschanged'; the length and the other waypoints stay as they
\* are, whether geocoder elements were created or not.
C14_MarkerDrag ==
    /\ [][plan'.lastOp = "drag" => DragStepOk(plan.drag.index)]_vars
    /\ [][plan'.lastOp = "dragend" => DragEndStepOk(plan.drag.index)]_vars
    /\ [][(plan.drag.mode = "marker" /\ plan'.drag.mode # "marker") =>
              plan'.lastOp = "dragend"]_vars

\* C14 for the Plan of dist/leaflet-routing-machine.js
C14_MarkerDragDist ==
    /\ [][(plan.impl = "dist" /\ plan'.lastOp = "drag") =>
              DragStepOk(plan.drag.index)]_vars
    /\ [][(plan.impl = "dist" /\ plan'.lastOp = "dragend") =>
              DragEndStepOk(plan.drag.index)]_vars
    /\ [][(plan.drag.mode = "marker" /\ plan'.drag.mode # "marker") =>
              plan'.lastOp = "dragend"]_vars

\* C14 for the 'drag' events of both implementations
C14_MarkerDragEvents ==
    [][plan'.lastOp = "drag" => DragStepOk(plan.drag.index)]_vars

\* C14, a case: a marker was released on a plan without geocoder elements
\* and the release handler has returned.
C14_ReleasedWithoutGeocoders ==
    /\ plan.lastOp = "dragend"
    /\ ~plan.created
    /\ plan.thrown = "none"
    /\ TypesOf(plan.fired) = <<"waypointdragend", "waypointschanged">>

\* The plan without the state of the drag in progress and without the
\* record of the last handler
Undragged(p) ==
    [p EXCEPT !.drag = NoDrag, !.lastOp = "none", !.fired = <<>>,
              !.thrown = "none", !.preFloor = -1, !.startIndex = 0]

\* The list with the waypoint wp inserted before the 0-based index i
InsertedAt(wps, i, wp) ==
    SubSeq(wps, 1, i) \o <<wp>> \o SubSeq(wps, i + 1, Len(wps))

\* C15: without routeWhileDragging, dragNewWaypoint and the mouse moves
\* that follow leave the waypoint list (and all the plan but the
\* temporary marker and lines) as it is and fire no event; the release
\* inserts exactly one waypoint with the release position at afterIndex+1,
\* removes the temporary marker and lines and unhooks mouse-move and
\* mouse-up, so that the plan is idle again and no pointer event acts on
\* it until the next drag starts.
C15_DragNewWaypointOnRelease ==
    /\ [][(plan'.drag.mode = "temp") =>
              /\ plan'.lastOp \in {"dragNewWaypoint", "mousemove"}
              /\ plan'.thrown = "none"
              /\ plan'.fired = <<>>
              /\ plan'.waypoints = plan.waypoints
              /\ Undragged(plan') = Undragged(plan)
              /\ plan.drag.mode = "temp" => plan'.drag.index = plan.drag.index
              /\ plan'.drag.index \in 1..(Len(plan.waypoints) - 1)]_vars
    /\ [][(plan.drag.mode = "temp" /\ plan'.drag.mode # "temp") =>
              /\ plan'.thrown = "none"
              /\ plan'.drag = NoDrag
              /\ \E latlng \in Positions :
                    plan'.waypoints =
                        InsertedAt(plan.waypoints, plan.drag.index,
                                   Waypoint(latlng, NoName))]_vars
    /\ [](plan.drag.mode = "none" => ~ENABLED (MouseMove \/ MouseUp))

\* C15, a case: the pointer was released after a drag that started on the
\* first segment of a plan without routeWhileDragging; the one new
\* waypoint is the second of three.
C15_InsertedOnRelease ==
    /\ ~plan.routeWhileDragging
    /\ plan.lastOp = "dragNewWaypoint"
    /\ plan.drag = NoDrag
    /\ plan.preFloor = 3
    /\ plan.startIndex = 1
    /\ plan.thrown = "none"
    /\ TypesOf(plan.fired) = <<"waypointschanged", "waypointsspliced">>

\* dragNewWaypoint with routeWhileDragging: the waypoint is inserted at
\* once at the index the tracked drag is about, its marker exists and is
\* hooked for that index, and 'waypointdragstart' fires for it after the
\* events of the splice.
TrackStartOk ==
    /\ plan'.thrown = "none"
    /\ plan'.drag.mode = "track"
    /\ plan'.drag.index \in 1..(Len(plan.waypoints) - 1)
    /\ \E latlng \in Positions :
          plan'.waypoints = InsertedAt(plan.waypoints, plan'.drag.index,
                                       Waypoint(latlng, NoName))
    /\ plan'.markers[plan'.drag.index + 1] = plan'.drag.index + 1
    /\ TypesOf(plan'.fired) =
          <<"waypointschanged", "waypointsspliced", "waypointdragstart">>
    /\ plan'.fired[3].index = plan'.drag.index

\* C16: with routeWhileDragging, dragNewWaypoint inserts the new waypoint
\* at once at afterIndex+1 (the others keep their order) and fires
\* 'waypointdragstart' for that index; every mouse move sets the position
\* of that waypoint and of its marker and fires 'waypointdrag'; the
\* release ends the drag as the release of a marker does: position set,
\* name empty, 'waypointdragend' then 'waypointschanged'.
C16_DragNewWaypointTracked ==
    /\ [][(plan.routeWhileDragging /\ plan.drag.mode = "none"
             /\ plan'.lastOp = "dragNewWaypoint") => TrackStartOk]_vars
    /\ [][plan'.lastOp = "mousemove" /\ plan.drag.mode = "track" =>
              DragStepOk(plan.drag.index)]_vars
    /\ [][plan'.lastOp = "mouseup" => DragEndStepOk(plan.drag.index)]_vars
    /\ [][(plan.drag.mode = "track" /\ plan'.drag.mode # "track") =>
              plan'.lastOp = "mouseup"]_vars

\* C16 for the Plan of dist/leaflet-routing-machine.js
C16_DragNewWaypointTrackedDist ==
    /\ [][(plan.impl = "dist" /\ plan.routeWhileDragging
             /\ plan.drag.mode = "none"
             /\ plan'.lastOp = "dragNewWaypoint") => TrackStartOk]_vars
    /\ [][(plan.impl = "dist" /\ plan'.lastOp = "mousemove"
             /\ plan.drag.mode = "track") => DragStepOk(plan.drag.index)]_vars
    /\ [][(plan.impl = "dist" /\ plan'.lastOp = "mouseup") =>
              DragEndStepOk(plan.drag.index)]_vars
    /\ [][(plan.drag.mode = "track" /\ plan'.drag.mode # "track") =>
              plan'.lastOp = "mouseup"]_vars

\* C16 up to the release, for both implementations
C16_DragNewWaypointTrackedMoves ==
    /\ [][(plan.routeWhileDragging /\ plan.drag.mode = "none"
             /\ plan'.lastOp = "dragNewWaypoint") => TrackStartOk]_vars
    /\ [][plan'.lastOp = "mousemove" /\ plan.drag.mode = "track" =>
              DragStepOk(plan.drag.index)]_vars

\* C16, a case: the pointer was released after a tracked drag of a new
\* waypoint and the release handler has returned.
C16_TrackedReleased ==
    /\ plan.lastOp = "mouseup"
    /\ plan.thrown = "none"
    /\ Len(plan.waypoints) = 3
    /\ TypesOf(plan.fired) = <<"waypointdragend", "waypointschanged">>

\* ------------------------------------------------------------------ strings
\* A JavaScript string is the sequence of its characters.
Lower == <<"a", "b", "c", "d", "e", "f", "g", "h", "i", "j", "k", "l", "m",
           "n", "o", "p", "q", "r", "s", "t", "u", "v", "w", "x", "y", "z">>

Upper == <<"A", "B", "C", "D", "E", "F", "G", "H", "I", "J", "K", "L", "M",
           "N", "O", "P", "Q", "R", "S", "T", "U", "V", "W", "X", "Y", "Z">>

\* String.prototype.toUpperCase / toLocaleUpperCase of one character
toUpperCase(c) ==
    IF \E k \in 1..Len(Lower) : Lower[k] = c
    THEN Upper[CHOOSE k \in 1..Len(Lower) : Lower[k] = c]
    ELSE c

\* string.charAt(0).toUpperCase() + string.substring(1)
capitalizeFirstLetter(string) ==
    IF string = <<>> THEN <<>>
    ELSE <<toUpperCase(string[1])>> \o Tail(string)

\* OSRMv1._camelCase(s) from character i on: s is split at the blanks,
\* every word gets its first letter capitalized, the words are joined.
RECURSIVE camelCaseFrom(_, _, _)
camelCaseFrom(s, i, wordStart) ==
    IF i > Len(s) THEN <<>>
    ELSE IF s[i] = " " THEN camelCaseFrom(s, i + 1, TRUE)
    ELSE <<IF wordStart THEN toUpperCase(s[i]) ELSE s[i]>>
             \o camelCaseFrom(s, i + 1, FALSE)

\* A camel case that capitalizes the first word only
_camelCase_first(s) ==
    capitalizeFirstLetter(SelectSeq(s, LAMBDA c : c # " "))

_camelCase(s) == camelCaseFrom(s, 1, TRUE)

\* ------------------------------------------------- OSRMv1: route conversion
Compass == <<"N", "NE", "E", "SE", "S", "SW", "W", "NW">>

\* OSRMv1._bearingToDirection(bearing) for an integer bearing >= 0:
\* Math.round(bearing / 45) is floor(bearing / 45 + 1/2)
_bearingToDirection_floor(bearing) == Compass[((bearing \div 45) % 8) + 1]

_bearingToDirection(bearing) == Compass[(((2 * bearing + 45) \div 90) % 8) + 1]

\* The characters of the maneuver types that are camel-cased themselves
CharsOf(type) ==
    CASE type = "merge" -> <<"m", "e", "r", "g", "e">>
      [] type = "fork" -> <<"f", "o", "r", "k">>
      [] type = "on ramp" -> <<"o", "n", " ", "r", "a", "m", "p">>
      [] type = "off ramp" -> <<"o", "f", "f", " ", "r", "a", "m", "p">>
      [] type = "end of road" -> <<"e", "n", "d", " ", "o", "f", " ", "r", "o", "a", "d">>

\* OSRMv1._maneuverToInstructionType(maneuver, lastLeg); every type
\* without a case of its own ('turn', 'continue', ...) takes the default
\* branch
_maneuverToInstructionType(maneuver, lastLeg) ==
    CASE maneuver.type = "new name" -> <<"C", "o", "n", "t", "i", "n", "u", "e">>
      [] maneuver.type = "depart" -> <<"H", "e", "a", "d">>
      [] maneuver.type = "arrive" ->
            IF lastLeg THEN <<"D", "e", "s", "t", "i", "n", "a", "t", "i", "o", "n",
                              "R", "e", "a", "c", "h", "e", "d">>
            ELSE <<"W", "a", "y", "p", "o", "i", "n", "t",
                   "R", "e", "a", "c", "h", "e", "d">>
      [] maneuver.type \in {"roundabout", "rotary"} ->
            <<"R", "o", "u", "n", "d", "a", "b", "o", "u", "t">>
      [] maneuver.type \in {"merge", "fork", "on ramp", "off ramp", "end of road"} ->
            _camelCase(CharsOf(maneuver.type))
      [] OTHER -> _camelCase(maneuver.modifier)

\* OSRMv1._decodePolyline(geometry): the polyline is the list of the
\* positions it encodes, each becomes an L.latLng
_decodePolyline(geometry) == [k \in 1..Len(geometry) |-> geometry[k]]

\* The entry of waypointIndices for a depart or arrive step that starts at
\* `index` of the merged coordinates
waypointIndex_last(index, geometry) == index + Len(geometry) - 1

waypointIndex(index, geometry) == index

\* One round of the inner loop of _convertRoute: step j of leg i (0-based
\* i) with the result so far
convertStep(r, step, i, legCount) ==
    LET geometry == _decodePolyline(step.geometry)
        type == _maneuverToInstructionType(step.maneuver, i = legCount - 1)
        isWaypoint == \/ i = 0 /\ step.maneuver.type = "depart"
                      \/ step.maneuver.type = "arrive"
    IN  [coordinates |-> r.coordinates \o geometry,
         waypointIndices |->
             IF type # <<>> /\ isWaypoint
             THEN Append(r.waypointIndices, waypointIndex(r.index, geometry))
             ELSE r.waypointIndices,
         instructions |->
             IF type # <<>>
             THEN Append(r.instructions,
                         [type |-> type, index |-> r.index,
                          direction |-> _bearingToDirection(step.maneuver.bearing_after)])
             ELSE r.instructions,
         index |-> r.index + Len(geometry)]

RECURSIVE convertSteps(_, _, _, _, _)
convertSteps(r, steps, j, i, legCount) ==
    IF j > Len(steps) THEN r
    ELSE convertSteps(convertStep(r, steps[j], i, legCount), steps, j + 1, i, legCount)

RECURSIVE convertLegs(_, _, _)
convertLegs(r, legs, i) ==
    IF i >= Len(legs) THEN r
    ELSE convertLegs(convertSteps(r, legs[i + 1].steps, 1, i, Len(legs)), legs, i + 1)

\* The result object of _convertRoute once the loops have run
converted(responseRoute, r) ==
    IF Len(responseRoute.legs[1].steps) > 0
    THEN [coordinates |-> r.coordinates, instructions |-> r.instructions,
          waypointIndices |-> r.waypointIndices]
    ELSE [coordinates |-> _decodePolyline(responseRoute.geometry),
          instructions |-> r.instructions,
          waypointIndices |-> "undefined"]

\* OSRMv1._convertRoute(responseRoute)
_convertRoute(responseRoute) ==
    converted(responseRoute,
              convertLegs([coordinates |-> <<>>, instructions |-> <<>>,
                           waypointIndices |-> <<>>, index |-> 0],
                          responseRoute.legs, 0))

\* The steps of a response: a geometry of 1..MaxGeom coordinates, a
\* maneuver with type, modifier and bearing_after.
Geometries == {[k \in 1..n |-> Origin] : n \in 1..MaxGeom}

ResponseStep(type, modifier, bearing, geometry) ==
    [maneuver |-> [type |-> type, modifier |-> modifier, bearing_after |-> bearing],
     geometry |-> geometry]

DepartSteps == {ResponseStep("depart", <<>>, 90, g) : g \in Geometries}

ArriveSteps == {ResponseStep("arrive", <<>>, 0, g) : g \in Geometries}

TurnSteps ==
    {ResponseStep("turn", m, 270, g) : m \in {<<"l", "e", "f", "t">>, <<>>},
                                       g \in Geometries}

\* The legs of a response with steps: depart, at most one turn, arrive;
\* and the leg of a response that carries no steps.
StepLegs ==
    {[steps |-> <<d>> \o mid \o <<a>>] :
        d \in DepartSteps, a \in ArriveSteps,
        mid \in {<<>>} \cup {<<t>> : t \in TurnSteps}}

\* The response routes of n legs: every leg with steps, or none
ResponseRoutes(n) ==
    {[legs |-> legs, geometry |-> <<Origin, Origin>>] :
        legs \in [1..n -> StepLegs] \cup {[k \in 1..n |-> [steps |-> <<>>]]}}

\* The host has a response route and calls _convertRoute on it once.
InitConvert ==
    /\ plan = InitPlan("dist", FALSE, FALSE, FALSE)
    /\ control = InitControl(FALSE, FALSE)
    /\ router = InitRouter
    /\ \E n \in 1..MaxLegs :
          \E responseRoute \in ResponseRoutes(n) :
              host = [InitHost EXCEPT !.call.args = <<responseRoute>>]

Returned(value) == [thrown |-> "none", value |-> value]

ConvertRoute ==
    /\ host.call.fn = "none"
    /\ host' = [host EXCEPT !.call.fn = "_convertRoute",
                            !.call.result = Returned(_convertRoute(host.call.args[1]))]
    /\ UNCHANGED <<plan, control, router>>

NextConvert == ConvertRoute

SpecConvert == InitConvert /\ [][NextConvert]_vars

\* The call made is _convertRoute of a route for two waypoints whose one
\* leg has the steps depart and arrive
DepartArrive ==
    /\ host.call.fn = "_convertRoute"
    /\ Len(host.call.args[1].legs) = 1
    /\ Len(host.call.args[1].legs[1].steps) = 2

\* C17: for a response route with the steps [depart, arrive] the parsed
\* route has exactly 2 instructions and waypointIndices = [0, N] with N
\* the index of the last coordinate of the merged coordinates.
C17_WaypointIndicesToLast ==
    DepartArrive =>
        /\ Len(host.call.result.value.instructions) = 2
        /\ host.call.result.value.waypointIndices =
              <<0, Len(host.call.result.value.coordinates) - 1>>

\* C17, amended: for a response route with the steps [depart, arrive] the
\* parsed route has exactly 2 instructions, its coordinates are the
\* depart geometry followed by the arrive geometry, and waypointIndices =
\* [0, N] with N the index of the first coordinate of the arrive step (the
\* number of coordinates of the depart step, the arrive instruction's
\* index); N is the last index only for an arrive step of one coordinate.
C17_WaypointIndicesToArrive ==
    DepartArrive =>
        LET steps == host.call.args[1].legs[1].steps
            parsed == host.call.result.value
        IN  /\ host.call.result.thrown = "none"
            /\ Len(parsed.instructions) = 2
            /\ Len(parsed.coordinates) = Len(steps[1].geometry) + Len(steps[2].geometry)
            /\ parsed.waypointIndices = <<0, Len(steps[1].geometry)>>
            /\ parsed.waypointIndices[2] = parsed.instructions[2].index
            /\ (parsed.waypointIndices[2] = Len(parsed.coordinates) - 1)
                  <=> (Len(steps[2].geometry) = 1)

\* C17, a case: the arrive step has two coordinates and the second
\* waypoint index is the last index but one.
C17_ArriveOfTwoCoordinates ==
    /\ DepartArrive
    /\ Len(host.call.args[1].legs[1].steps[2].geometry) = 2
    /\ host.call.result.value.waypointIndices[2] =
          Len(host.call.result.value.coordinates) - 2

\* ------------------------------------------------------ compass directions
\* directionFromDegree(language, degree) of the text instructions for a
\* language given and an integer degree: the name of the direction in
\* instructions[language][version].constants.direction
directionFromDegree(degree) ==
    CASE degree >= 0 /\ degree <= 20 -> Returned("north")
      [] degree > 20 /\ degree < 70 -> Returned("northeast")
      [] degree >= 70 /\ degree <= 110 -> Returned("east")
      [] degree > 110 /\ degree < 160 -> Returned("southeast")
      [] degree >= 160 /\ degree <= 200 -> Returned("south")
      [] degree > 200 /\ degree < 250 -> Returned("southwest")
      [] degree >= 250 /\ degree <= 290 -> Returned("west")
      [] degree > 290 /\ degree < 340 -> Returned("northwest")
      [] degree >= 340 /\ degree <= 360 -> Returned("north")
      [] OTHER -> [thrown |-> "Error", value |-> "undefined"]

\* The bearings of a maneuver: whole degrees clockwise from true north
Bearings == 0..359

\* The host has a bearing and calls one of the two functions on it once.
InitDirection ==
    /\ plan = InitPlan("dist", FALSE, FALSE, FALSE)
    /\ control = InitControl(FALSE, FALSE)
    /\ router = InitRouter
    /\ \E bearing \in Bearings :
          host = [InitHost EXCEPT !.call.args = <<bearing>>]

BearingToDirection ==
    /\ host.call.fn = "none"
    /\ host' = [host EXCEPT !.call.fn = "_bearingToDirection",
                            !.call.result = Returned(_bearingToDirection(host.call.args[1]))]
    /\ UNCHANGED <<plan, control, router>>

DirectionFromDegree ==
    /\ host.call.fn = "none"
    /\ host' = [host EXCEPT !.call.fn = "directionFromDegree",
                            !.call.result = directionFromDegree(host.call.args[1])]
    /\ UNCHANGED <<plan, control, router>>

NextDirection == BearingToDirection \/ DirectionFromDegree

SpecDirection == InitDirection /\ [][NextDirection]_vars

\* The names of directionFromDegree in the order of Compass
CompassNames == <<"north", "northeast", "east", "southeast",
                  "south", "southwest", "west", "northwest">>

\* The angle between two bearings, 0..180
Apart(a, b) == Min2((a - b) % 360, (b - a) % 360)

\* The bearing and the direction of the call made
CallMaps(fn, bearing, direction) ==
    (host.call.fn = fn /\ host.call.args[1] = bearing) =>
        host.call.result = Returned(direction)

\* C18: an integer bearing 0..359 falls into one of eight 45-degree
\* sectors whose lower bound is inclusive: 0 -> north, 44 -> north,
\* 46 -> northeast, 359 -> north.
C18_SectorsFromLowerBound ==
    /\ CallMaps("_bearingToDirection", 0, "N")
    /\ CallMaps("_bearingToDirection", 44, "N")
    /\ CallMaps("_bearingToDirection", 46, "NE")
    /\ CallMaps("_bearingToDirection", 359, "N")
    /\ CallMaps("directionFromDegree", 0, "north")
    /\ CallMaps("directionFromDegree", 44, "north")
    /\ CallMaps("directionFromDegree", 46, "northeast")
    /\ CallMaps("directionFromDegree", 359, "north")

\* C18, amended: the eight sectors are centred on the compass points.
\* _bearingToDirection gives the point 45k for the bearings at most 22
\* degrees from it; directionFromDegree gives north, east, south and west
\* for the bearings at most 20 degrees from them and the points between
\* for the others.  So 0 -> north, 44 -> northeast, 46 -> northeast and
\* 359 -> north, and no call throws.
C18_SectorsCentred ==
    /\ host.call.fn = "_bearingToDirection" =>
          \A k \in 0..7 :
              (host.call.result = Returned(Compass[k + 1]))
                  <=> (Apart(host.call.args[1], 45 * k) <= 22)
    /\ host.call.fn = "directionFromDegree" =>
          \A k \in 0..7 :
              (host.call.result = Returned(CompassNames[k + 1]))
                  <=> (Apart(host.call.args[1], 45 * k)
                          <= (IF k % 2 = 0 THEN 20 ELSE 24))
    /\ CallMaps("_bearingToDirection", 0, "N")
    /\ CallMaps("_bearingToDirection", 44, "NE")
    /\ CallMaps("_bearingToDirection", 46, "NE")
    /\ CallMaps("_bearingToDirection", 359, "N")
    /\ CallMaps("directionFromDegree", 0, "north")
    /\ CallMaps("directionFromDegree", 44, "northeast")
    /\ CallMaps("directionFromDegree", 46, "northeast")
    /\ CallMaps("directionFromDegree", 359, "north")

\* C18, a case: the bearing 44 was bucketed, as northeast.
C18_FortyFourIsNortheast ==
    /\ host.call.fn = "_bearingToDirection"
    /\ host.call.args[1] = 44
    /\ host.call.result.value = "NE"

\* --------------------------------------------- text instructions: tokenize
\* \w of a regular expression: letters, digits and the underscore
Digits == {"0", "1", "2", "3", "4", "5", "6", "7", "8", "9"}

IsWordChar(c) ==
    \/ \E k \in 1..Len(Lower) : Lower[k] = c \/ Upper[k] = c
    \/ c \in Digits
    \/ c = "_"

\* The index after the longest run of \w characters that starts at i
RECURSIVE wordEnd(_, _)
wordEnd(s, i) ==
    IF i <= Len(s) /\ IsWordChar(s[i]) THEN wordEnd(s, i + 1) ELSE i

\* A match of /\{(\w+)(?::(\w+))?\}/ that starts at index i of s: the
\* index of its closing brace and the tag.  The grammar after the colon
\* is matched and not kept: no grammar file is loaded, so grammarize
\* returns the value as it is.
NoMatch == [found |-> FALSE, end |-> 0, tag |-> <<>>]

withGrammar(s, i, j, k) ==
    IF k = j + 1 \/ k > Len(s) THEN NoMatch
    ELSE IF s[k] = "}"
    THEN [found |-> TRUE, end |-> k, tag |-> SubSeq(s, i + 1, j - 1)]
    ELSE NoMatch

tagged(s, i, j) ==
    IF j = i + 1 \/ j > Len(s) THEN NoMatch
    ELSE IF s[j] = "}"
    THEN [found |-> TRUE, end |-> j, tag |-> SubSeq(s, i + 1, j - 1)]
    ELSE IF s[j] = ":" THEN withGrammar(s, i, j, wordEnd(s, j + 1))
    ELSE NoMatch

matchAt(s, i) ==
    IF s[i] = "{" THEN tagged(s, i, wordEnd(s, i + 1)) ELSE NoMatch

\* JavaScript values a property lookup gives: a string, undefined, or the
\* function Object with the text String(Object)
Str(chars) == [type |-> "string", chars |-> chars]

Undefined == [type |-> "undefined", chars |-> <<>>]

ObjectFunction ==
    [type |-> "function",
     chars |->
        <<"f", "u", "n", "c", "t", "i", "o", "n", " ", "O", "b", "j", "e", "c", "t",
          "(", ")", " ", "{", " ", "[", "n", "a", "t", "i", "v", "e", " ",
          "c", "o", "d", "e", "]", " ", "}">>]

\* Property names every object literal inherits from Object.prototype
\* and that consist of \w characters (one of them; toString, valueOf,
\* hasOwnProperty, __proto__ and others behave alike)
InheritedKeys == {<<"c", "o", "n", "s", "t", "r", "u", "c", "t", "o", "r">>}

\* tokens[tag] for a token context that is an object literal with string
\* values: tokens is the function from its own keys to their values
property(tokens, tag) ==
    IF tag \in DOMAIN tokens THEN Str(tokens[tag])
    ELSE IF tag \in InheritedKeys THEN ObjectFunction
    ELSE Undefined

\* The replacement function of tokenize without the note that the
\* instruction started with a token
replaced_unnoted(token, value, offset, capitalize) ==
    IF value.type = "undefined"
    THEN [thrown |-> "none", text |-> token, started |-> FALSE]
    ELSE IF offset = 0 /\ capitalize
    THEN IF value.type = "string"
         THEN [thrown |-> "none", text |-> capitalizeFirstLetter(value.chars),
               started |-> FALSE]
         ELSE [thrown |-> "TypeError", text |-> <<>>, started |-> FALSE]
    ELSE [thrown |-> "none", text |-> value.chars, started |-> FALSE]

\* The replacement function of tokenize for the match `token` with `tag`
\* at the 0-based offset, value == tokens[tag]; capitalize is
\* instructions[language].meta.capitalizeFirstLetter
replaced(token, value, offset, capitalize) ==
    IF value.type = "undefined"
    THEN [thrown |-> "none", text |-> token, started |-> FALSE]
    ELSE IF offset = 0 /\ capitalize
    THEN IF value.type = "string"
         THEN [thrown |-> "none", text |-> capitalizeFirstLetter(value.chars),
               started |-> TRUE]
         ELSE [thrown |-> "TypeError", text |-> <<>>, started |-> TRUE]
    ELSE [thrown |-> "none", text |-> value.chars, started |-> FALSE]

emitted(acc, r) ==
    [thrown |-> r.thrown, output |-> acc.output \o r.text,
     startedWithToken |-> acc.startedWithToken \/ r.started]

\* instruction.replace(/\{(\w+)(?::(\w+))?\}/g, function ...) from index i
\* on, acc holding what is rendered so far
RECURSIVE replaceFrom(_, _, _, _, _)
RECURSIVE replaceAt(_, _, _, _, _, _)
replaceAt(s, tokens, capitalize, i, acc, m) ==
    IF m.found
    THEN replaceFrom(s, tokens, capitalize, m.end + 1,
                     emitted(acc, replaced(SubSeq(s, i, m.end),
                                           property(tokens, m.tag),
                                           i - 1, capitalize)))
    ELSE replaceFrom(s, tokens, capitalize, i + 1,
                     [acc EXCEPT !.output = Append(@, s[i])])

replaceFrom(s, tokens, capitalize, i, acc) ==
    IF acc.thrown # "none" \/ i > Len(s) THEN acc
    ELSE replaceAt(s, tokens, capitalize, i, acc, matchAt(s, i))

\* .replace(/ {2}/g, ' ') from index i on
RECURSIVE collapseFrom(_, _)
collapseFrom(s, i) ==
    IF i > Len(s) THEN <<>>
    ELSE IF i < Len(s) /\ s[i] = " " /\ s[i + 1] = " "
    THEN <<" ">> \o collapseFrom(s, i + 2)
    ELSE <<s[i]>> \o collapseFrom(s, i + 1)

\* The end of tokenize: the output without excess blanks, capitalized
\* unless a leading token was
finished(acc, output, capitalize) ==
    IF acc.thrown # "none"
    THEN [thrown |-> acc.thrown, value |-> "undefined"]
    ELSE IF ~acc.startedWithToken /\ capitalize
    THEN Returned(capitalizeFirstLetter(output))
    ELSE Returned(output)

rendered(acc, capitalize) ==
    finished(acc, collapseFrom(acc.output, 1), capitalize)

\* meta.capitalizeFirstLetter of the two language files that are loaded
Languages == {"en", "de"}

capitalizeFirstLetterOf == [language \in Languages |-> TRUE]

NothingRendered == [thrown |-> "none", output |-> <<>>, startedWithToken |-> FALSE]

\* tokenize(language, instruction, tokens) without options
tokenize(language, instruction, tokens) ==
    IF language = ""
    THEN [thrown |-> "Error", value |-> "undefined"]
    ELSE rendered(replaceFrom(instruction, tokens,
                              capitalizeFirstLetterOf[language], 1,
                              NothingRendered),
                  capitalizeFirstLetterOf[language])

\* The templates and token contexts of the calls: every template of up
\* to MaxTemplate characters over braces, colon, blank and a letter with
\* every context that gives the tag a no value, the empty string, a word
\* or a word after a blank, and three calls written out.
TemplateChars == {"{", "}", ":", " ", "a"}

TokenValues == {<<>>, <<"b">>, <<" ", "b">>}

NoTokens == <<>>

TokenContexts ==
    {NoTokens} \cup {[tag \in {<<"a">>} |-> v] : v \in TokenValues}

ExampleTemplate ==
    <<"{", "m", "o", "d", "i", "f", "i", "e", "r", "}", " ", "o", "n", "t", "o", " ",
      "{", "w", "a", "y", "_", "n", "a", "m", "e", "}">>

ExampleTokens ==
    (<<"m", "o", "d", "i", "f", "i", "e", "r">> :> <<"l", "e", "f", "t">>)
    @@ (<<"w", "a", "y", "_", "n", "a", "m", "e">> :> <<"M", "a", "i", "n", " ", "S", "t">>)

InheritedTemplates ==
    {<<"{", "c", "o", "n", "s", "t", "r", "u", "c", "t", "o", "r", "}">>,
     <<"t", "o", " ", "{", "c", "o", "n", "s", "t", "r", "u", "c", "t", "o", "r", "}">>}

\* The calls with a template of n characters, and the calls written out
TokenizeCalls(n) ==
    {<<instruction, tokens>> :
        instruction \in [1..n -> TemplateChars], tokens \in TokenContexts}

\* Two tokens side by side between two words, both with an empty value
AdjacentTemplate ==
    <<"a", " ", "{", "a", "}", " ", "{", "a", "}", " ", "a">>

WrittenCalls ==
    {<<ExampleTemplate, ExampleTokens>>,
     <<AdjacentTemplate, [tag \in {<<"a">>} |-> <<>>]>>}
    \cup {<<instruction, NoTokens>> : instruction \in InheritedTemplates}

\* The host has a template and a token context and calls tokenize once.
InitTokenize ==
    /\ plan = InitPlan("dist", FALSE, FALSE, FALSE)
    /\ control = InitControl(FALSE, FALSE)
    /\ router = InitRouter
    /\ \/ \E n \in 0..MaxTemplate :
             \E args \in TokenizeCalls(n) :
                 host = [InitHost EXCEPT !.call.args = args]
       \/ \E args \in WrittenCalls :
             host = [InitHost EXCEPT !.call.args = args]

Tokenize ==
    /\ host.call.fn = "none"
    /\ \E language \in Languages :
          host' = [host EXCEPT !.call.fn = "tokenize",
                               !.call.result = tokenize(language, host.call.args[1],
                                                        host.call.args[2])]
    /\ UNCHANGED <<plan, control, router>>

NextTokenize == Tokenize

SpecTokenize == InitTokenize /\ [][NextTokenize]_vars

\* The text a language profile without capitalizeFirstLetter renders
PlainText(instruction, tokens) ==
    rendered(replaceFrom(instruction, tokens, FALSE, 1, NothingRendered),
             FALSE).value

\* text is plain with exactly its first character upper-cased
FirstUpperCased(text, plain) ==
    /\ Len(text) = Len(plain)
    /\ \A k \in 1..Len(plain) :
          text[k] = (IF k = 1 THEN toUpperCase(plain[1]) ELSE plain[k])

TokenizeReturned == host.call.fn = "tokenize" /\ host.call.result.thrown = "none"

\* The template of the call begins with a token whose value is the empty
\* string
LeadingValueEmpty ==
    /\ host.call.args[1] # <<>>
    /\ matchAt(host.call.args[1], 1).found
    /\ property(host.call.args[2], matchAt(host.call.args[1], 1).tag) = Str(<<>>)

\* C19: with a language profile that requests auto-capitalization the
\* rendered text is the substituted template with exactly its first
\* character upper-cased and nothing else changed, whether the template
\* begins with a token (the value is capitalized) or not (the rendered
\* string is); '{modifier} onto {way_name}' with 'left' and 'Main St'
\* renders as 'Left onto Main St'.
C19_FirstCharacterUpperCased ==
    TokenizeReturned =>
        /\ FirstUpperCased(host.call.result.value,
                           PlainText(host.call.args[1], host.call.args[2]))
        /\ host.call.args = <<ExampleTemplate, ExampleTokens>> =>
              host.call.result.value = 
                  <<"L", "e", "f", "t", " ", "o", "n", "t", "o", " ", "M", "a", "i", "n", " ", "S", "t">>

\* C19, amended: a leading token that has a value gets its value
\* capitalized and the rendered string is then left as it is; otherwise
\* the rendered string is capitalized.  The result is the substituted
\* template with exactly its first character upper-cased, except when the
\* leading token's value is the empty string: then it is the substituted
\* template unchanged.  The example renders as 'Left onto Main St'.
C19_UpperCasedUnlessLeadingValueEmpty ==
    TokenizeReturned =>
        /\ ~LeadingValueEmpty =>
              FirstUpperCased(host.call.result.value,
                              PlainText(host.call.args[1], host.call.args[2]))
        /\ LeadingValueEmpty =>
              host.call.result.value =
                  PlainText(host.call.args[1], host.call.args[2])
        /\ host.call.args = <<ExampleTemplate, ExampleTokens>> =>
              host.call.result.value = 
                  <<"L", "e", "f", "t", " ", "o", "n", "t", "o", " ", "M", "a", "i", "n", " ", "S", "t">>

\* C19, a case: the example of the claim was rendered.
C19_ExampleRendered ==
    /\ TokenizeReturned
    /\ host.call.args = <<ExampleTemplate, ExampleTokens>>
    /\ host.call.result.value[1] = "L"

\* C19, a case: a template that begins with a token of empty value was
\* rendered and the text begins with a lower-case letter.
C19_LowerCaseAfterEmptyValue ==
    /\ TokenizeReturned
    /\ LeadingValueEmpty
    /\ host.call.result.value # <<>>
    /\ host.call.result.value[1] = "a"

\* sub occurs in s
Occurs(sub, s) ==
    \E i \in 1..(Len(s) - Len(sub) + 1) : SubSeq(s, i, i + Len(sub) - 1) = sub

\* What the claim says of the placeholder that starts at index i of the
\* template of the call and ends at m.end: without a value in the token
\* context it is in the output as written, with a value the value is
\* (capitalized when the placeholder leads the template)
PlaceholderRendered(i, m) ==
    IF m.tag \in DOMAIN host.call.args[2]
    THEN Occurs(IF i = 1 THEN capitalizeFirstLetter(host.call.args[2][m.tag])
                ELSE host.call.args[2][m.tag],
                host.call.result.value)
    ELSE Occurs(SubSeq(host.call.args[1], i, m.end), host.call.result.value)

\* C20: tokenize raises no error for any template and token context, a
\* placeholder whose tag has no value in the context is left in the
\* output as written, and every placeholder with a value is replaced by
\* that value.
C20_UnknownPassesThrough ==
    host.call.fn = "tokenize" =>
        /\ host.call.result.thrown = "none"
        /\ \A i \in 1..Len(host.call.args[1]) :
              matchAt(host.call.args[1], i).found =>
                  PlaceholderRendered(i, matchAt(host.call.args[1], i))

\* The template of the call has a placeholder whose tag is a property
\* that the token context inherits
InheritedTag ==
    \E i \in 1..Len(host.call.args[1]) :
        /\ matchAt(host.call.args[1], i).found
        /\ matchAt(host.call.args[1], i).tag \notin DOMAIN host.call.args[2]
        /\ matchAt(host.call.args[1], i).tag \in InheritedKeys

\* C20 for the templates without such a placeholder
C20_PassesThroughUnlessInherited ==
    (host.call.fn = "tokenize" /\ ~InheritedTag) =>
        /\ host.call.result.thrown = "none"
        /\ \A i \in 1..Len(host.call.args[1]) :
              matchAt(host.call.args[1], i).found =>
                  PlaceholderRendered(i, matchAt(host.call.args[1], i))

\* C20, a case: the template 'a{a}' was rendered with an empty token
\* context and the placeholder is in the output as written.
C20_UnknownLeftInExample ==
    /\ host.call.fn = "tokenize"
    /\ host.call.result.thrown = "none"
    /\ host.call.args[2] = NoTokens
    /\ host.call.args[1] = <<"a", "{", "a", "}">>
    /\ host.call.result.value = <<"A", "{", "a", "}">>

\* C20, a case: the placeholder {constructor} led the template and
\* tokenize threw a TypeError.
C20_InheritedTagThrows ==
    /\ host.call.fn = "tokenize"
    /\ InheritedTag
    /\ host.call.result.thrown = "TypeError"

\* ------------------------------------------------------------ polyline codec
\* A coordinate value is counted in millionths of a degree, a tenth of the
\* last decimal kept at precision 5: value * factor is tenths / 10.

\* py2_round(value * factor): half away from zero
py2_round(tenths) ==
    LET magnitude == IF tenths < 0 THEN -tenths ELSE tenths
        sign == IF tenths < 0 THEN -1 ELSE IF tenths > 0 THEN 1 ELSE 0
    IN  ((magnitude + 5) \div 10) * sign

\* The characters of one encoded number, as character codes: five bits a
\* character, lowest first, 0x20 set on all but the last
RECURSIVE chunks(_)
chunks(coordinate) ==
    IF coordinate >= 32
    THEN <<(32 + (coordinate % 32)) + 63>> \o chunks(coordinate \div 32)
    ELSE <<coordinate + 63>>

\* encode that rounds the difference of the two values
encode_difference(current, previous) ==
    LET difference == py2_round(current - previous)
    IN  chunks(IF difference < 0 THEN -(2 * difference) - 1 ELSE 2 * difference)

\* encode(current, previous, factor): the difference of the two rounded
\* values, shifted left by one and inverted when negative.  Within
\* latitudes of 90 and longitudes of 180 degrees the shifted difference is
\* at most 72 000 000 and stays inside 32 bits.
encode(current, previous) ==
    LET difference == py2_round(current) - py2_round(previous)
    IN  chunks(IF difference < 0 THEN -(2 * difference) - 1 ELSE 2 * difference)

RECURSIVE encodeFrom(_, _, _)
encodeFrom(coordinates, i, output) ==
    IF i > Len(coordinates) THEN output
    ELSE encodeFrom(coordinates, i + 1,
                    output \o encode(coordinates[i][1], coordinates[i - 1][1])
                           \o encode(coordinates[i][2], coordinates[i - 1][2]))

\* polyline.encode(coordinates, 5)
polyline_encode(coordinates) ==
    IF Len(coordinates) = 0 THEN <<>>
    ELSE encodeFrom(coordinates, 2,
                    encode(coordinates[1][1], 0) \o encode(coordinates[1][2], 0))

\* 2^shift
RECURSIVE Pow2(_)
Pow2(shift) == IF shift = 0 THEN 1 ELSE 2 * Pow2(shift - 1)

\* One do-while loop of decode: the number read from index on and the
\* index behind it.  charCodeAt behind the end of the string is NaN, which
\* adds no bits and ends the loop.
RECURSIVE readNumber(_, _, _, _)
readNumber(str, index, shift, result) ==
    IF index > Len(str) THEN [result |-> result, index |-> index + 1]
    ELSE LET byte == str[index] - 63
             read == result + (byte % 32) * Pow2(shift)
         IN  IF byte >= 32 THEN readNumber(str, index + 1, shift + 5, read)
             ELSE [result |-> read, index |-> index + 1]

\* (result & 1) ? ~(result >> 1) : (result >> 1)
change(result) ==
    IF result % 2 = 1 THEN -(result \div 2) - 1 ELSE result \div 2

RECURSIVE decodeFrom(_, _, _, _, _)
decodeFrom(str, index, lat, lng, coordinates) ==
    IF index > Len(str) THEN coordinates
    ELSE LET first == readNumber(str, index, 0, 0)
             second == readNumber(str, first.index, 0, 0)
             newLat == lat + change(first.result)
             newLng == lng + change(second.result)
         IN  decodeFrom(str, second.index, newLat, newLng,
                        Append(coordinates, <<10 * newLat, 10 * newLng>>))

\* polyline.decode(str, 5): lat / factor and lng / factor, in millionths
polyline_decode(str) == decodeFrom(str, 1, 0, 0, <<>>)

\* Latitudes within [-90, 90] and longitudes within [-180, 180] degrees,
\* in millionths: the ends of the ranges, values between two decimals and
\* values half way between two decimals
Latitudes == {-90000000, -15, -5, 4, 8, 90000000}
Longitudes == {-180000000, -4, 0, 5, 14, 180000000}

CoordinateLists(n) ==
    {cs \in SeqsUpTo(Latitudes \X Longitudes, n) : Len(cs) = n}

\* The host has a coordinate sequence and sends it through the codec once.
InitPolyline ==
    /\ plan = InitPlan("dist", FALSE, FALSE, FALSE)
    /\ control = InitControl(FALSE, FALSE)
    /\ router = InitRouter
    /\ \E n \in 0..MaxCoords : \E cs \in CoordinateLists(n) :
          host = [InitHost EXCEPT !.call.args = <<cs>>]

PolylineRoundTrip ==
    /\ host.call.fn = "none"
    /\ LET str == polyline_encode(host.call.args[1])
       IN  host' = [host EXCEPT !.call.fn = "polyline",
                                !.call.result = Returned([encoded |-> str,
                                                          decoded |-> polyline_decode(str)])]
    /\ UNCHANGED <<plan, control, router>>

NextPolyline == PolylineRoundTrip

SpecPolyline == InitPolyline /\ [][NextPolyline]_vars

AnySteps ==
    {ResponseStep(type, <<>>, 0, g) :
        type \in {"depart", "arrive"},
        g \in {<<>>, [k \in 1..MaxGeom |-> Origin]}}
    \cup {ResponseStep("turn", <<"l", "e", "f", "t">>, 270, <<Origin>>)}

AnyLegs == {[steps |-> steps] : steps \in SeqsUpTo(AnySteps, 2) \ {<<>>}}

AnyRoutes(n) ==
    {[legs |-> legs, geometry |-> <<Origin, Origin>>] : legs \in [1..n -> AnyLegs]}

\* The host has such a response route and calls _convertRoute on it once.
InitConvertAny ==
    /\ plan = InitPlan("dist", FALSE, FALSE, FALSE)
    /\ control = InitControl(FALSE, FALSE)
    /\ router = InitRouter
    /\ \E n \in 1..MaxLegs :
          \E responseRoute \in AnyRoutes(n) :
              host = [InitHost EXCEPT !.call.args = <<responseRoute>>]

SpecConvertAny == InitConvertAny /\ [][NextConvert]_vars

\* The steps of all legs in order, each with the 0-based index of its leg
RECURSIVE Flat(_, _)
Flat(legs, i) ==
    IF i > Len(legs) THEN <<>>
    ELSE [j \in 1..Len(legs[i].steps) |-> [leg |-> i - 1, step |-> legs[i].steps[j]]]
         \o Flat(legs, i + 1)

\* The number of coordinates of the first k steps
RECURSIVE CoordinatesOf(_, _)
CoordinatesOf(flat, k) ==
    IF k = 0 THEN 0 ELSE CoordinatesOf(flat, k - 1) + Len(flat[k].step.geometry)

\* A depart of the first leg or an arrive of any leg
MarksWaypoint(e) ==
    \/ e.leg = 0 /\ e.step.maneuver.type = "depart"
    \/ e.step.maneuver.type = "arrive"

CountOf(steps, type) ==
    Cardinality({j \in 1..Len(steps) : steps[j].maneuver.type = type})

ManeuverTypes ==
    {"new name", "depart", "arrive", "roundabout", "rotary", "merge", "fork",
     "on ramp", "off ramp", "end of road", "turn", "continue"}

Modifiers ==
    {<<"l", "e", "f", "t">>, <<"u", "t", "u", "r", "n">>,
     <<"s", "l", "i", "g", "h", "t", " ", "r", "i", "g", "h", "t">>}

\* The legs of one step of any type followed by an arrive
ManeuverLegs ==
    {[steps |-> <<ResponseStep(type, m, 0, <<Origin>>),
                  ResponseStep("arrive", m, 0, <<Origin>>)>>] :
        type \in ManeuverTypes, m \in Modifiers}

ManeuverRoutes(n) ==
    {[legs |-> legs, geometry |-> <<Origin, Origin>>] : legs \in [1..n -> ManeuverLegs]}

\* The host has such a response route and calls _convertRoute on it once.
InitManeuver ==
    /\ plan = InitPlan("dist", FALSE, FALSE, FALSE)
    /\ control = InitControl(FALSE, FALSE)
    /\ router = InitRouter
    /\ \E n \in 1..MaxLegs :
          \E responseRoute \in ManeuverRoutes(n) :
              host = [InitHost EXCEPT !.call.args = <<responseRoute>>]

SpecManeuver == InitManeuver /\ [][NextConvert]_vars

DestinationReached ==
    <<"D", "e", "s", "t", "i", "n", "a", "t", "i", "o", "n",
      "R", "e", "a", "c", "h", "e", "d">>

WaypointReached ==
    <<"W", "a", "y", "p", "o", "i", "n", "t", "R", "e", "a", "c", "h", "e", "d">>

\* The instruction type the mapping is said to give
InstructionTypeSaid(type, modifier, lastLeg) ==
    CASE type = "new name" -> <<"C", "o", "n", "t", "i", "n", "u", "e">>
      [] type = "depart" -> <<"H", "e", "a", "d">>
      [] type \in {"roundabout", "rotary"} ->
            <<"R", "o", "u", "n", "d", "a", "b", "o", "u", "t">>
      [] type = "merge" -> <<"M", "e", "r", "g", "e">>
      [] type = "fork" -> <<"F", "o", "r", "k">>
      [] type = "on ramp" -> <<"O", "n", "R", "a", "m", "p">>
      [] type = "off ramp" -> <<"O", "f", "f", "R", "a", "m", "p">>
      [] type = "end of road" -> <<"E", "n", "d", "O", "f", "R", "o", "a", "d">>
      [] type = "arrive" -> IF lastLeg THEN DestinationReached ELSE WaypointReached
      [] OTHER ->
            CASE modifier = <<"l", "e", "f", "t">> -> <<"L", "e", "f", "t">>
              [] modifier = <<"u", "t", "u", "r", "n">> -> <<"U", "t", "u", "r", "n">>
              [] OTHER -> <<"S", "l", "i", "g", "h", "t", "R", "i", "g", "h", "t">>

\* C23: every step of a parsed route has the instruction type of the
\* mapping: 'new name' -> Continue, 'depart' -> Head, 'roundabout' and
\* 'rotary' -> Roundabout, 'merge', 'fork', 'on ramp', 'off ramp' and
\* 'end of road' -> their name in camel case, any other type -> its
\* modifier in camel case, 'arrive' -> DestinationReached on the last leg
\* and WaypointReached on every other leg; a route whose legs have one
\* arrive step each has exactly one DestinationReached instruction.
C23_InstructionTypes ==
    host.call.fn = "_convertRoute" =>
        LET legs == host.call.args[1].legs
            flat == Flat(legs, 1)
            instructions == host.call.result.value.instructions
        IN  /\ host.call.result.thrown = "none"
            /\ Len(instructions) = Len(flat)
            /\ \A k \in 1..Len(flat) :
                  instructions[k].type =
                      InstructionTypeSaid(flat[k].step.maneuver.type,
                                          flat[k].step.maneuver.modifier,
                                          flat[k].leg = Len(legs) - 1)
            /\ (\A i \in 1..Len(legs) : CountOf(legs[i].steps, "arrive") = 1)
                  => Cardinality({k \in 1..Len(instructions) :
                                     instructions[k].type = DestinationReached}) = 1

\* C23, a case: a route of two legs was parsed, 'on ramp' then arrive and
\* 'continue' slight right then arrive: OnRamp, WaypointReached,
\* SlightRight, DestinationReached.
C23_RampThenContinue ==
    /\ host.call.fn = "_convertRoute"
    /\ Len(host.call.args[1].legs) = 2
    /\ host.call.args[1].legs[1].steps[1].maneuver.type = "on ramp"
    /\ host.call.args[1].legs[2].steps[1].maneuver.type = "continue"
    /\ Len(host.call.result.value.instructions) = 4
    /\ host.call.result.value.instructions[1].type = <<"O", "n", "R", "a", "m", "p">>
    /\ host.call.result.value.instructions[2].type = WaypointReached
    /\ host.call.result.value.instructions[3].type =
          <<"S", "l", "i", "g", "h", "t", "R", "i", "g", "h", "t">>
    /\ host.call.result.value.instructions[4].type = DestinationReached

\* ------------------------------------------------------- route line touches
\* Line: the route line on the map.  The positions of its route lie on one
\* straight road, LinePositions counts along it; distanceTo is the
\* difference of two counts.
LinePositions == 0..2

distanceTo(a, b) == IF a < b THEN b - a ELSE a - b

\* Line._findClosestRoutePoint(latlng), 0-based: the loop runs from the
\* last coordinate to the first and replaces minIndex on a strictly
\* smaller distance only
RECURSIVE closestFrom(_, _, _, _, _)
closestFrom(coordinates, latlng, i, minIndex, minDist) ==
    IF i < 0 THEN minIndex
    ELSE LET d == distanceTo(latlng, coordinates[i + 1])
         IN  IF minIndex = -1 \/ d < minDist
             THEN closestFrom(coordinates, latlng, i - 1, i, d)
             ELSE closestFrom(coordinates, latlng, i - 1, minIndex, minDist)

_findClosestRoutePoint(coordinates, latlng) ==
    closestFrom(coordinates, latlng, Len(coordinates) - 1, -1, 0)

\* Line._findWaypointIndices
_findWaypointIndices(lineRoute) ==
    [k \in 1..Len(lineRoute.inputWaypoints) |->
        _findClosestRoutePoint(lineRoute.coordinates, lineRoute.inputWaypoints[k])]

\* Line._getWaypointIndices: route.waypointIndices || _findWaypointIndices()
_getWaypointIndices(lineRoute) ==
    IF lineRoute.hasWaypointIndices THEN lineRoute.waypointIndices
    ELSE _findWaypointIndices(lineRoute)

\* Line._findNearestWpBefore(i): j is 0-based, -1 when the loop runs out
RECURSIVE nearestFrom(_, _, _)
nearestFrom(wpIndices, i, j) ==
    IF j >= 0 /\ wpIndices[j + 1] > i THEN nearestFrom(wpIndices, i, j - 1) ELSE j

_findNearestWpBefore(wpIndices, i) == nearestFrom(wpIndices, i, Len(wpIndices) - 1)

\* The 'linetouched' listener of Control._hookEvents
lineTouched(s, afterIndex, latlng) ==
    IF afterIndex < Len(getWaypoints(s)) - 1
    THEN dragNewWaypoint(s, afterIndex, latlng)
    ELSE s

\* Line._onLineTouched(e) with the listener the control hooked
_onLineTouched(s, lineRoute, latlng) ==
    LET closest == _findClosestRoutePoint(lineRoute.coordinates, latlng)
        afterIndex == _findNearestWpBefore(_getWaypointIndices(lineRoute), closest)
    IN  lineTouched([s EXCEPT !.host.call.fn = "_onLineTouched",
                              !.host.call.result =
                                  Returned([closest |-> closest, afterIndex |-> afterIndex])],
                    afterIndex, Origin)

\* The coordinates of a route: 2..MaxRoute positions, no two in a row equal
RouteCoordinates(n) ==
    {cs \in SeqsUpTo(LinePositions, n) :
        /\ Len(cs) = n
        /\ \A k \in 1..n - 1 : cs[k] # cs[k + 1]}

\* The places of n waypoints in a route of len coordinates: the first
\* waypoint at the start of the route, the others further along
WaypointPlaces(n, len) ==
    {w \in [1..n -> 0..len - 1] :
        /\ w[1] = 0
        /\ \A k \in 1..n - 1 : w[k] <= w[k + 1]}

\* The route of a line: parsed from a response with steps it carries the
\* waypointIndices of _convertRoute, parsed from one whose legs have no
\* steps it carries none; its inputWaypoints lie on the road, where the
\* route passes them
LineRoute(coordinates, places, hasSteps) ==
    [coordinates |-> coordinates,
     inputWaypoints |-> [k \in 1..Len(places) |-> coordinates[places[k] + 1]],
     hasWaypointIndices |-> hasSteps,
     waypointIndices |-> IF hasSteps THEN places ELSE <<>>]

\* What the handlers so far left behind, as the next handler finds it
Settled(s) ==
    [s EXCEPT !.router.reqs = Collected(@), !.control.fired = <<>>]

Loaded(s, r) ==
    corsliteCallback([s EXCEPT !.router.reqs[r].xhr = "loaded",
                               !.router.reqs[r].response =
                                   [json |-> TRUE, code |-> "Ok", complete |-> TRUE, locations |-> <<>>]],
                     r, FALSE, NoName, [json |-> TRUE, code |-> "Ok", complete |-> TRUE, locations |-> <<>>])

\* A Routing Control of n waypoints on the map whose route() was
\* answered: the line of the route is on the map
Routed(n) ==
    LET s0 == [plan |-> InitPlan("dist", FALSE, FALSE, FALSE),
               control |-> InitControl(FALSE, FALSE),
               router |-> InitRouter, host |-> InitHost]
        s1 == constructed(setWaypoints(s0, [k \in 1..n |-> RouteWaypoint]), TRUE)
        s2 == Settled(onAdd(s1))
        s3 == Settled(route(s2, DefaultOptions))
    IN  Settled(Loaded(s3, 1))

InitLine ==
    \E len \in 2..MaxRoute, hasSteps \in BOOLEAN :
        \E coordinates \in RouteCoordinates(len), n \in 2..MaxLen - 1 :
            \E places \in WaypointPlaces(n, len), latlng \in LinePositions :
                LET s == Routed(n)
                IN  /\ plan = s.plan
                    /\ control = s.control
                    /\ router = s.router
                    /\ host = [s.host EXCEPT !.call.args =
                                  <<LineRoute(coordinates, places, hasSteps), latlng>>]

\* 'mousedown' on the route line
LineTouched ==
    /\ Idle /\ control.line # 0
    /\ host.call.fn = "none"
    /\ CommitBounded(_onLineTouched(Begin("linetouched"),
                                    host.call.args[1], host.call.args[2]))

NextLine == LineTouched \/ MouseMove \/ MouseUp

SpecLine == InitLine /\ [][NextLine]_vars

\* The touch of the line mapped as said: closest is the index of a route
\* coordinate of minimal distance to the touched point, afterIndex is the
\* largest waypoint index whose entry in the line's waypoint indices is
\* not greater than closest and lies in 0..n-1; a drag-insert is started
\* only for afterIndex < n-1; the waypoint it inserts on release is
\* neither the first nor the last of the list.
TouchMapped ==
    LET lineRoute == host.call.args[1]
        latlng == host.call.args[2]
        n == Len(lineRoute.inputWaypoints)
        wpIndices == _getWaypointIndices(lineRoute)
        closest == host.call.result.value.closest
        afterIndex == host.call.result.value.afterIndex
    IN  /\ closest \in 0..Len(lineRoute.coordinates) - 1
        /\ \A k \in 1..Len(lineRoute.coordinates) :
              distanceTo(latlng, lineRoute.coordinates[closest + 1])
                  <= distanceTo(latlng, lineRoute.coordinates[k])
        /\ afterIndex \in 0..n - 1
        /\ wpIndices[afterIndex + 1] <= closest
        /\ \A j \in afterIndex + 1..n - 1 : wpIndices[j + 1] > closest
        /\ plan.drag.mode # "none" =>
              /\ afterIndex < n - 1
              /\ plan.drag.index = afterIndex + 1
        /\ afterIndex >= n - 1 =>
              plan.drag.mode = "none" /\ Len(plan.waypoints) = n
        /\ Len(plan.waypoints) \in {n, n + 1}
        /\ Len(plan.waypoints) = n + 1 =>
              /\ plan.waypoints[1].name # NoName
              /\ plan.waypoints[n + 1].name # NoName
              /\ plan.waypoints[afterIndex + 2].name = NoName

\* C24: a touch of the route line reports as afterIndex the largest
\* waypoint index j whose waypointIndices[j] is not greater than the index
\* of the route coordinate closest to the touched point; afterIndex lies
\* in 0..n-1 for a route of n waypoints; the Routing Control starts a
\* drag-insert only when afterIndex < n-1, so that no waypoint is ever
\* inserted before the first or after the last waypoint.
C24_TouchMapping ==
    host.call.fn = "_onLineTouched" => TouchMapped

\* C24 for the line of a route with steps, whose waypointIndices come
\* from _convertRoute and start with 0
C24_TouchMappingWithSteps ==
    (host.call.fn = "_onLineTouched"
        /\ host.call.args[1].hasWaypointIndices) => TouchMapped

\* C24, the failing case: the line of a route without steps was touched,
\* afterIndex was -1 and the waypoint was inserted before the first one.
C24_InsertedBeforeFirst ==
    /\ host.call.fn = "_onLineTouched"
    /\ ~host.call.args[1].hasWaypointIndices
    /\ host.call.result.value.afterIndex = -1
    /\ Len(plan.waypoints) = Len(host.call.args[1].inputWaypoints) + 1
    /\ plan.waypoints[1].name = NoName

\* ------------------------------------------------------------ excess blanks
\* text has n blanks in a row somewhere
BlanksInARow(text, n) ==
    \E i \in 1..Len(text) - n + 1 : \A k \in i..i + n - 1 : text[k] = " "

\* The template with its tokens substituted, before the blanks are removed
Substituted ==
    replaceFrom(host.call.args[1], host.call.args[2], FALSE, 1, NothingRendered).output

\* C25: after token substitution the rendered instruction contains no two
\* consecutive blanks, for every template and every token context, also
\* when several adjacent tokens are replaced by the empty string.
C25_NoTwoBlanks ==
    TokenizeReturned => ~BlanksInARow(host.call.result.value, 2)

\* C25 for the texts that have at most two blanks in a row after the
\* substitution (one empty token between two blanks): the one pass of
\* / {2}/g leaves no two blanks in a row; and a text rendered with two
\* blanks in a row had three or more after the substitution.
C25_PairsOfBlanksRemoved ==
    TokenizeReturned =>
        (BlanksInARow(host.call.result.value, 2) => BlanksInARow(Substituted, 3))

\* C25, the failing case: 'a {a} {a} a' with the empty string for a was
\* rendered as 'A  a', with two blanks.
C25_AdjacentEmptyTokens ==
    /\ TokenizeReturned
    /\ host.call.args[1] = AdjacentTemplate
    /\ host.call.result.value = <<"A", " ", " ", "a">>

\* ------------------------------------------- compile: roundabout and rotary
\* Values of step members as the tests of compile see them
Num(n) == [type |-> "number", value |-> n]

Truthy(v) ==
    CASE v.type = "undefined" -> FALSE
      [] v.type = "string" -> v.chars # <<>>
      [] v.type = "number" -> v.value # 0

\* A choice that looks for the exit variant before the name variant
rotaryVariant_exitFirst(step, instructionObject) ==
    IF step.maneuver.type \notin {"rotary", "roundabout"} THEN "none"
    ELSE IF Truthy(step.rotary_name) /\ Truthy(step.maneuver.exit)
            /\ "name_exit" \in instructionObject
    THEN "name_exit"
    ELSE IF Truthy(step.maneuver.exit) /\ "exit" \in instructionObject
    THEN "exit"
    ELSE IF Truthy(step.rotary_name) /\ "name" \in instructionObject
    THEN "name"
    ELSE "default"

\* The special case handling of compile for the types 'rotary' and
\* 'roundabout': the member of instructionObject that replaces it
\* ("none": the type has no special case and instructionObject stays).
\* instructionObject is given by the names of the members it has.
rotaryVariant(step, instructionObject) ==
    IF step.maneuver.type \notin {"rotary", "roundabout"} THEN "none"
    ELSE IF Truthy(step.rotary_name) /\ Truthy(step.maneuver.exit)
            /\ "name_exit" \in instructionObject
    THEN "name_exit"
    ELSE IF Truthy(step.rotary_name) /\ "name" \in instructionObject
    THEN "name"
    ELSE IF Truthy(step.maneuver.exit) /\ "exit" \in instructionObject
    THEN "exit"
    ELSE "default"

\* The steps: a rotary, a roundabout or a turn, with or without a rotary
\* name (or an empty one) and an exit number (or 0)
RotarySteps ==
    {[maneuver |-> [type |-> type, exit |-> exit], rotary_name |-> name] :
        type \in {"rotary", "roundabout", "turn"},
        exit \in {Undefined, Num(0), Num(1), Num(2)},
        name \in {Undefined, Str(<<>>), Str(<<"R", "i", "n", "g">>)}}

\* The phrase sets: 'default' with any of the three other variants
PhraseSets == {{"default"} \cup vs : vs \in SUBSET {"name_exit", "name", "exit"}}

\* The host has a step and the phrase set of its type and compiles it.
InitRotary ==
    /\ plan = InitPlan("dist", FALSE, FALSE, FALSE)
    /\ control = InitControl(FALSE, FALSE)
    /\ router = InitRouter
    /\ \E step \in RotarySteps, instructionObject \in PhraseSets :
          host = [InitHost EXCEPT !.call.args = <<step, instructionObject>>]

CompileRotary ==
    /\ host.call.fn = "none"
    /\ host' = [host EXCEPT !.call.fn = "compile",
                            !.call.result =
                                Returned(rotaryVariant(host.call.args[1], host.call.args[2]))]
    /\ UNCHANGED <<plan, control, router>>

NextRotary == CompileRotary

SpecRotary == InitRotary /\ [][NextRotary]_vars

\* The compiled step is a rotary or roundabout
RotaryCompiled ==
    /\ host.call.fn = "compile"
    /\ host.call.args[1].maneuver.type \in {"rotary", "roundabout"}

\* The step has a rotary name, an exit number; the phrase set has variant v
Named == Truthy(host.call.args[1].rotary_name)

Numbered == Truthy(host.call.args[1].maneuver.exit)

Has(v) == v \in host.call.args[2]

Chosen(v) == host.call.result = Returned(v)

laneConfig_everyLane(step) ==
    IF ~step.hasLanes THEN [thrown |-> "Error", value |-> "undefined"]
    ELSE Returned([k \in 1..Len(step.lanes) |-> IF step.lanes[k] THEN "o" ELSE "x"])

\* The forEach of laneConfig from lane i on; currentLaneValidity is
\* "null", "true" or "false"
RECURSIVE lanesFrom(_, _, _, _)
lanesFrom(lanes, i, currentLaneValidity, config) ==
    IF i > Len(lanes) THEN config
    ELSE LET valid == IF lanes[i] THEN "true" ELSE "false"
         IN  IF currentLaneValidity = "null" \/ currentLaneValidity # valid
             THEN lanesFrom(lanes, i + 1, valid,
                            Append(config, IF lanes[i] THEN "o" ELSE "x"))
             ELSE lanesFrom(lanes, i + 1, currentLaneValidity, config)

\* laneConfig(step); step.lanes is the list of lane.valid of
\* step.intersections[0].lanes, hasLanes tells whether the step has one
laneConfig(step) ==
    IF ~step.hasLanes THEN [thrown |-> "Error", value |-> "undefined"]
    ELSE Returned(lanesFrom(step.lanes, 1, "null", <<>>))

LaneSteps(n) ==
    {[hasLanes |-> TRUE, lanes |-> lanes] : lanes \in [1..n -> BOOLEAN]}

\* The host has a step with up to MaxLanes lanes, or one without lanes,
\* and calls laneConfig on it once.
InitLanes ==
    /\ plan = InitPlan("dist", FALSE, FALSE, FALSE)
    /\ control = InitControl(FALSE, FALSE)
    /\ router = InitRouter
    /\ \/ \E n \in 0..MaxLanes : \E step \in LaneSteps(n) :
             host = [InitHost EXCEPT !.call.args = <<step>>]
       \/ host = [InitHost EXCEPT !.call.args = <<[hasLanes |-> FALSE, lanes |-> <<>>]>>]

LaneConfig ==
    /\ host.call.fn = "none"
    /\ host' = [host EXCEPT !.call.fn = "laneConfig",
                            !.call.result = laneConfig(host.call.args[1])]
    /\ UNCHANGED <<plan, control, router>>

NextLanes == LaneConfig

SpecLanes == InitLanes /\ [][NextLanes]_vars

\* C27: laneConfig maps a lane-validity sequence to one 'o' per maximal
\* run of valid lanes and one 'x' per maximal run of invalid lanes, in
\* order: as many characters as there are runs, no two equal characters
\* side by side, the first character that of the first lane (so the k-th
\* character is that of the k-th run), and [true, true, false] gives 'ox'.
C27_LanePattern ==
    (host.call.fn = "laneConfig" /\ host.call.args[1].hasLanes) =>
        LET lanes == host.call.args[1].lanes
            config == host.call.result.value
            changes == {k \in 1..Len(lanes) - 1 : lanes[k] # lanes[k + 1]}
        IN  /\ host.call.result.thrown = "none"
            /\ Len(config) = IF lanes = <<>> THEN 0 ELSE Cardinality(changes) + 1
            /\ \A k \in 1..Len(config) : config[k] \in {"o", "x"}
            /\ \A k \in 1..Len(config) - 1 : config[k] # config[k + 1]
            /\ lanes # <<>> => (config[1] = "o" <=> lanes[1])
            /\ lanes = <<TRUE, TRUE, FALSE>> => config = <<"o", "x">>

\* C27, a case: [true, true, false] was collapsed to 'ox'.
C27_TwoOpenOneClosed ==
    /\ host.call.fn = "laneConfig"
    /\ host.call.args[1].hasLanes
    /\ host.call.args[1].lanes = <<TRUE, TRUE, FALSE>>
    /\ host.call.result.value = <<"o", "x">>

\* ----------------------------------------------------- request URL and hints
\* L.latLng of a location: Origin is [0, 0], the others lie north-west
latOf(p) == p - 1

lngOf(p) == 1 - p

\* The hint token of the cache for a location; 0 is the empty token ''
hintOf(s, p) == s.router.hints[p]

\* OSRMv1.buildRouteUrl(waypoints, options): the locations as lng,lat
\* pairs, the overview parameter and the hint tokens (none when useHints is
\* off)
buildRouteUrl(s, waypoints, options, useHints) ==
    [locs |-> [i \in 1..Len(waypoints) |->
                  <<lngOf(waypoints[i].latLng), latOf(waypoints[i].latLng)>>],
     overview |-> IF options.geometryOnly
                  THEN (IF options.simplifyGeometry THEN "" ELSE "full")
                  ELSE "false",
     useHints |-> useHints,
     hints |-> IF useHints
               THEN [i \in 1..Len(waypoints) |-> hintOf(s, waypoints[i].latLng)]
               ELSE <<>>]

\* The options of a route call a host makes on the router itself, with a
\* callback of its own
HostOptions == [callback |-> "host", geometryOnly |-> FALSE, simplifyGeometry |-> FALSE]

\* router.route(waypoints, callback) called by the host; the URL of the
\* request is kept as the result of the call
hostRoute(s, waypoints, useHints) ==
    [OSRMv1_route(s, waypoints, 0, HostOptions)
        EXCEPT !.host.call = [fn |-> "route", args |-> <<useHints, waypoints>>,
                              result |-> Returned(buildRouteUrl(s, waypoints, HostOptions,
                                                                useHints))]]

\* An OSRMv1 router of its own, built with or without useHints
InitHints ==
    /\ plan = InitPlan("dist", FALSE, FALSE, FALSE)
    /\ control = InitControl(FALSE, FALSE)
    /\ router = InitRouter
    /\ \E useHints \in BOOLEAN :
          host = [InitHost EXCEPT !.call.args = <<useHints>>]

\* The host asks for a route between two locations, while fewer than
\* MaxInFlight of its requests are unanswered
HostRoute ==
    /\ Len(router.reqs) < MaxCount
    /\ Cardinality({r \in 1..Len(router.reqs) :
                       router.reqs[r].xhr = "open" \/ router.reqs[r].timer = "pending"})
          < MaxInFlight
    /\ \E from \in Locations, to \in Locations :
          Commit(hostRoute(Begin("route"),
                           <<Waypoint(from, ""), Waypoint(to, "")>>,
                           host.call.args[1]))

NextHints == HostRoute \/ ResponseLoads \/ TransportFails \/ TimeoutExpires

SpecHints == InitHints /\ [][NextHints]_vars

\* Request r is answered in this step by a response the router takes as
\* a success: it arrives before the timeout, parses, has the code Ok and
\* the members the router reads
Succeeds(r) ==
    /\ r <= Len(router.reqs)
    /\ router.reqs[r].xhr = "open"
    /\ router.reqs'[r].xhr = "loaded"
    /\ ~router.reqs'[r].timedOut
    /\ router.reqs'[r].response = [json |-> TRUE, code |-> "Ok", complete |-> TRUE, locations |-> <<>>]

\* C28: the request URL lists the waypoints as lng,lat pairs in the order
\* given; with hints enabled the i-th hint token is the cache entry for the
\* location of the i-th waypoint: the hint of the most recent successful
\* response if that had a waypoint at the location, empty otherwise; a
\* successful response replaces the cache with exactly the entries of its
\* request's waypoints, and every other step (a failed, unparsable,
\* incomplete or late response, an error, a timeout, a new request)
\* leaves the cache unchanged.
C28_UrlAndHints ==
    /\ [][Len(router.reqs') = Len(router.reqs) + 1 =>
             LET waypoints == host'.call.args[2]
                 url == host'.call.result.value
             IN  /\ router.reqs'[Len(router.reqs')].wps = waypoints
                 /\ Len(url.locs) = Len(waypoints)
                 /\ \A i \in 1..Len(waypoints) :
                       url.locs[i] = <<lngOf(waypoints[i].latLng),
                                       latOf(waypoints[i].latLng)>>
                 /\ host.call.args[1] =>
                       /\ Len(url.hints) = Len(waypoints)
                       /\ \A i \in 1..Len(waypoints) :
                             url.hints[i] = router.hints[waypoints[i].latLng]
                 /\ router.hints' = router.hints]_vars
    /\ [][\A r \in 1..Len(router.reqs) :
             Succeeds(r) =>
                 router.hints' =
                     [p \in Locations |->
                         IF \E i \in 1..Len(router.reqs[r].wps) :
                                router.reqs[r].wps[i].latLng = p
                         THEN r ELSE 0]]_vars
    /\ [][(\A r \in 1..Len(router.reqs) : ~Succeeds(r)) =>
             router.hints' = router.hints]_vars

\* C28, a case: the third request, from the second location to the first,
\* carries no hint for the second location and the hint of the second
\* response for the first; the first response had left a hint for the
\* second location, which the second response removed.
C28_HintOfLatestResponseOnly ==
    /\ host.call.fn = "route"
    /\ host.call.args[1]
    /\ host.call.args[2] = <<Waypoint(2, ""), Waypoint(Origin, "")>>
    /\ host.call.result.value.locs = <<<<-1, 1>>, <<0, 0>>>>
    /\ host.call.result.value.hints = <<0, 2>>
    /\ Len(router.reqs) = 3
    /\ router.hints[2] = 0


\* ------------------------------------------------- the request counter
\* The invocations, in this step, of the callback of request r
CallsOf(r) == router.reqs'[r].calls

\* The events this step fired about request r that show its result
ResultEvents(r) ==
    {k \in 1..Len(control.fired') :
        /\ control.fired'[k].request = r
        /\ control.fired'[k].type \in {"routingerror", "routesfound", "routeselected"}}

\* C29: for a request of route() without options.callback, the result is
\* applied (the lines cleared, then 'routingerror', or 'routesfound' and
\* 'routeselected' and the new lines) if and only if the tag of the
\* request equals the control's counter when the callback runs; no tag is
\* ever above the counter; route() raises the counter by one on every
\* call, and a call made while the plan is not ready sends no request and
\* leaves every request with a tag below the counter.
C29_CounterGuard ==
    /\ [](\A r \in 1..Len(router.reqs) : router.reqs[r].ts <= control.requestCount)
    /\ [][\A r \in 1..Len(router.reqs) :
             (router.reqs[r].callback = "default" /\ CallsOf(r) # <<>>) =>
                 LET call == CallsOf(r)[Len(CallsOf(r))]
                     types == {control.fired'[k].type : k \in ResultEvents(r)}
                 IN  /\ Len(CallsOf(r)) = 1
                     /\ call.latest <=> router.reqs[r].ts = control'.requestCount
                     /\ call.latest <=> ResultEvents(r) # {}
                     /\ (call.latest /\ ~call.err.null) =>
                            /\ types = {"routingerror"}
                            /\ control'.line = 0
                     /\ (call.latest /\ call.err.null) =>
                            /\ types = {"routesfound", "routeselected"}
                            /\ control'.line = call.routes
                     /\ ~call.latest =>
                            /\ ~call.changedLine
                            /\ control'.routes = control.routes]_vars
    /\ [][Route =>
             /\ control'.requestCount = control.requestCount + 1
             /\ isReady(State) =>
                    /\ Len(router.reqs') = Len(router.reqs) + 1
                    /\ router.reqs'[Len(router.reqs')].ts = control'.requestCount
             /\ ~isReady(State) =>
                    /\ Len(router.reqs') = Len(router.reqs)
                    /\ \A r \in 1..Len(router.reqs') :
                          router.reqs'[r].ts < control'.requestCount]_vars

\* C29, a case: route() was called while the plan was not ready and a
\* request without a callback of its own was pending; no request was
\* sent, the pending one was aborted and its callback, run with the error
\* of the abort, found its tag below the counter and fired nothing.
C29_InvalidatedByUnsentRoute ==
    /\ ~isReady(State)
    /\ router.reqs # <<>>
    /\ LET r == Len(router.reqs)
       IN  /\ router.reqs[r].callback = "default"
           /\ router.reqs[r].xhr = "aborted"
           /\ Len(router.reqs[r].calls) = 1
           /\ ~router.reqs[r].calls[1].latest
           /\ ~router.reqs[r].calls[1].err.null
           /\ router.reqs[r].ts = control.requestCount - 1
    /\ \A k \in 1..Len(control.fired) : control.fired[k].request # Len(router.reqs)


\* -------------------------------------------- the callback of a request
\* A host uses an OSRMv1 router on its own, with a callback that returns
\* normally, and keeps the handles route() returns
InitClient ==
    /\ plan = InitPlan("dist", FALSE, FALSE, FALSE)
    /\ control = InitControl(FALSE, FALSE)
    /\ router = InitRouter
    /\ host = [InitHost EXCEPT !.call.args = <<TRUE>>]

\* The requests whose transport or timer is still running
Unanswered ==
    {r \in 1..Len(router.reqs) :
        router.reqs[r].xhr = "open" \/ router.reqs[r].timer = "pending"}

\* router.route(waypoints, callback) called by the host
ClientRoute ==
    /\ Len(router.reqs) < MaxCount
    /\ Cardinality(Unanswered) < MaxInFlight
    /\ Commit(hostRoute(Begin("route"), <<RouteWaypoint, RouteWaypoint>>, TRUE))

\* The host calls abort() on the handle of a request that is still open
HostAborts ==
    \E r \in 1..Len(router.reqs) :
        /\ router.reqs[r].xhr = "open"
        /\ Commit(abort(Begin("abort"), r))

NextClient ==
    \/ ClientRoute
    \/ ResponseLoads
    \/ TransportFails
    \/ TimeoutExpires
    \/ HostAborts

\* The timer of request r expires
TimerFires(r) ==
    /\ r <= Len(router.reqs)
    /\ router.reqs[r].timer = "pending"
    /\ TimeoutExpires
    /\ router.reqs'[r].timer = "fired"

\* setTimeout: a timer that is neither cleared nor fired fires in the end
SpecClient ==
    /\ InitClient
    /\ [][NextClient]_vars
    /\ \A r \in 1..MaxCount : WF_vars(TimerFires(r))

\* Request r has been sent and its callback has not run
Waiting(r) ==
    /\ r <= Len(router.reqs)
    /\ router.reqs[r].xhr = "open"
    /\ router.reqs[r].nCalls = 0

\* The callback of request r has run once
Called(r) ==
    /\ r <= Len(router.reqs)
    /\ router.reqs[r].nCalls = 1

\* C30: for every route() call of the route client, whatever the order of
\* timer expiry, response arrival, transport error and abort, the callback
\* is invoked in the end and exactly once: never twice, once when nothing
\* more can happen to the request, and a request that waits leads to one
\* whose callback has run (given that a running timer fires in the end
\* and the callback returns normally).
C30_CalledExactlyOnce ==
    /\ [](\A r \in 1..Len(router.reqs) : router.reqs[r].nCalls <= 1)
    /\ [][\A r \in 1..Len(router.reqs) :
             (r \in Unanswered /\ router.reqs'[r].xhr # "open"
                               /\ router.reqs'[r].timer # "pending") =>
                 router.reqs'[r].nCalls = 1]_vars
    /\ \A r \in 1..MaxCount : Waiting(r) ~> Called(r)

\* C30, a case: the timer of a request expired, the host then aborted the
\* request, and the callback has run once, for the timeout.
C30_AbortedAfterTimeout ==
    \E r \in 1..Len(router.reqs) :
        /\ router.reqs[r].timedOut
        /\ router.reqs[r].timer = "fired"
        /\ router.reqs[r].xhr = "aborted"
        /\ router.reqs[r].nCalls = 1

\* ----------------------------------------------------- geocoder elements
\* The geocoder elements are as many as the waypoints and element i is the
\* one created for index i
ElementsAligned ==
    /\ Len(plan.geocoderElems) = Len(plan.waypoints)
    /\ \A k \in 1..Len(plan.geocoderElems) : plan.geocoderElems[k] = k

\* C31: once createGeocoders has been called, after every operation that
\* changes the waypoint list (setWaypoints, spliceWaypoints at any start
\* index, add, delete, reverse, drag-insert) and returns, there are as
\* many geocoder elements as waypoints and element i is bound to index i.
C31_GeocodersAligned ==
    (plan.created /\ plan.lastOp \in PlanOps /\ plan.thrown = "none") =>
        ElementsAligned

\* C31 for the Plan of dist/leaflet-routing-machine.js
C31_GeocodersAlignedDist ==
    (plan.impl = "dist" /\ plan.created /\ plan.lastOp \in PlanOps
                        /\ plan.thrown = "none") =>
        ElementsAligned

\* C31, a case: spliceWaypoints(0, 0, wp) has returned on a plan.ts Plan
\* of two waypoints and the elements are still those of the two.
C31_ElementsOfFormerList ==
    /\ plan.impl = "ts"
    /\ plan.created
    /\ plan.lastOp = "spliceWaypoints"
    /\ plan.startIndex = 0
    /\ plan.thrown = "none"
    /\ Len(plan.waypoints) = 3
    /\ plan.geocoderElems = <<1, 2>>

\* ------------------------------------------------------------- markers
\* Every waypoint that has a position has its marker at its own index
MarkersAligned ==
    \A i \in 1..Len(plan.waypoints) :
        plan.waypoints[i].latLng # NoPos =>
            /\ i <= Len(plan.markers)
            /\ plan.markers[i] = i

\* C32: while the plan is on a map, after every operation that splices the
\* waypoint list and returns, markers[i] is the marker of waypoints[i] for
\* every waypoint that has a position, also when an earlier waypoint has
\* none.
C32_MarkersAligned ==
    (plan.map /\ plan.lastOp \in PlanOps /\ plan.thrown = "none") =>
        MarkersAligned

\* C32 for the Plan of dist/leaflet-routing-machine.js
C32_MarkersAlignedDist ==
    (plan.impl = "dist" /\ plan.map /\ plan.lastOp \in PlanOps
                        /\ plan.thrown = "none") =>
        MarkersAligned

\* C32, a case: a plan.ts Plan on a map has got a first waypoint without
\* position and a second one with a position, whose marker (the one
\* hooked for the second waypoint) is the first and only entry of the
\* marker collection.
C32_MarkerOfSecondIsFirst ==
    /\ plan.impl = "ts"
    /\ plan.map
    /\ plan.lastOp = "setWaypoints"
    /\ plan.thrown = "none"
    /\ Len(plan.waypoints) = 2
    /\ plan.waypoints[1].latLng = NoPos
    /\ plan.waypoints[2].latLng # NoPos
    /\ plan.markers = <<2>>

\* ------------------------------------------- lines of a plan not ready
\* C33: no route line is displayed while the plan is not ready: a waypoint
\* change that leaves a waypoint without position removes the lines, and
\* no response of an earlier request puts a line back.
C33_NoLineUnlessReady ==
    ~isReady(State) => control.line = 0

\* C33 for a control with autoRoute, whose every waypoint change calls
\* route()
C33_NoLineUnlessReadyAutoRoute ==
    (control.autoRoute /\ ~isReady(State)) => control.line = 0

\* C33, a case: without autoRoute, the response of a request sent before
\* the waypoints were replaced has arrived and its routes are displayed,
\* while a waypoint has no position.
C33_LineOfFormerWaypoints ==
    /\ ~control.autoRoute
    /\ ~isReady(State)
    /\ control.line # 0
    /\ \E r \in 1..Len(router.reqs) :
          /\ router.reqs[r].xhr = "loaded"
          /\ router.reqs[r].nCalls = 1
          /\ isReady([State EXCEPT !.plan.waypoints = router.reqs[r].wps])

\* ------------------------------------------- waypoints of a request
\* A Routing Control built with two named waypoints at different
\* locations and put on the map
InitCopy ==
    \E autoRoute \in BOOLEAN :
        LET s0 == [plan |-> InitPlan("dist", FALSE, FALSE, FALSE),
                   control |-> InitControl(FALSE, autoRoute),
                   router |-> InitRouter, host |-> InitHost]
            s1 == constructed(setWaypoints(s0, <<Waypoint(Origin, NoName),
                                                 Waypoint(2, NoName)>>), TRUE)
            s == Settled(onAdd(routeOnAdd(s1)))
        IN  /\ plan = s.plan
            /\ control = s.control
            /\ router = s.router
            /\ host = s.host

\* 'drag' of the dragged marker, to any location
DragTo ==
    /\ plan.drag.mode = "marker"
    /\ \E latlng \in Locations :
          CommitBounded(drag(Begin("drag"), plan.drag.index, latlng))

\* 'dragend' of the dragged marker, at any location
DragEndAt ==
    /\ plan.drag.mode = "marker"
    /\ \E latlng \in Locations :
          CommitBounded(dragEnd([Begin("dragend") EXCEPT !.plan.drag = NoDrag],
                                plan.drag.index, latlng))

NextCopy ==
    \/ SetWaypoints
    \/ MarkerDragStart
    \/ DragTo
    \/ DragEndAt
    \/ Route
    \/ ResponseLoads

SpecCopy == InitCopy /\ [][NextCopy]_vars

\* C34: the inputWaypoints of the routes parsed from a response are the
\* waypoints, positions and names, the plan had when the request was sent:
\* a request is sent with the waypoints of that moment, they stay as they
\* are while the request is open, whatever is dragged, renamed or spliced
\* in the plan, and they are what the callback receives with the routes.
C34_InputWaypointsOfRequestTime ==
    /\ [][\A r \in (Len(router.reqs) + 1)..Len(router.reqs') :
             router.reqs'[r].wps = plan'.waypoints]_vars
    /\ [][\A r \in 1..Len(router.reqs) :
             router.reqs[r].xhr = "open" =>
                 /\ router.reqs'[r].wps = router.reqs[r].wps
                 /\ \A k \in 1..Len(CallsOf(r)) :
                       CallsOf(r)[k].err.null =>
                           CallsOf(r)[k].inputWaypoints = router.reqs[r].wps]_vars

\* C34, a case: a marker was dragged to another location and released
\* while a request was open, and the routes of that request have arrived
\* with the waypoints as they were before the drag.
C34_DraggedWhileInFlight ==
    \E r \in 1..Len(router.reqs) :
        /\ Len(router.reqs[r].calls) = 1
        /\ router.reqs[r].calls[1].err.null
        /\ router.reqs[r].calls[1].inputWaypoints =
               <<Waypoint(Origin, NoName), Waypoint(2, NoName)>>
        /\ plan.waypoints = <<Waypoint(2, ""), Waypoint(2, NoName)>>

\* --------------------------------------------- order of the route events
\* The events of the control this step fired, by type
StepFired(type) == {k \in 1..Len(control.fired') : control.fired'[k].type = type}

\* C35: every 'routesfound' and every 'routingerror' is about a request
\* that was sent in an earlier step, and a request is sent exactly with
\* the 'routingstart' that names it, so the 'routingstart' of the same
\* request has gone before; 'routesfound' is followed at once by
\* 'routeselected' of the same result, which becomes the selected route;
\* a route() call made while the plan is not ready fires no
\* 'routingstart' and sends no request.
C35_RouteEventOrder ==
    /\ [][/\ \A k \in StepFired("routingstart") :
                control.fired'[k].request \in (Len(router.reqs) + 1)..Len(router.reqs')
          /\ \A r \in (Len(router.reqs) + 1)..Len(router.reqs') :
                Cardinality({k \in StepFired("routingstart") :
                                control.fired'[k].request = r}) = 1]_vars
    /\ [][\A k \in StepFired("routesfound") \cup StepFired("routingerror") :
             control.fired'[k].request \in 1..Len(router.reqs)]_vars
    /\ [][\A k \in StepFired("routesfound") :
             /\ k < Len(control.fired')
             /\ control.fired'[k + 1] =
                    [type |-> "routeselected", request |-> control.fired'[k].request]
             /\ control'.selectedRoute.id = control.fired'[k].request
             /\ control'.routes.id = control.fired'[k].request]_vars
    /\ [][(Route /\ ~isReady(State)) =>
             /\ StepFired("routingstart") = {}
             /\ Len(router.reqs') = Len(router.reqs)]_vars

\* C35, a case: the routes of the second request were found and then
\* selected; of the three route() calls so far one, made while the plan
\* was not ready, sent nothing.
C35_FoundThenSelected ==
    /\ control.fired = <<[type |-> "routesfound", request |-> 2],
                         [type |-> "routeselected", request |-> 2]>>
    /\ control.selectedRoute.id = 2
    /\ control.requestCount = 3
    /\ Len(router.reqs) = 2

\* ------------------------------------------- selection of alternatives
\* The routesIndex property of a route: a number, or undefined
Idx(i) == [defined |-> TRUE, value |-> i]

NoIdx == [defined |-> FALSE, value |-> 0]

\* ToIntegerOrInfinity of Array.prototype.splice's start: undefined is 0
ToInteger(idx) == IF idx.defined THEN idx.value ELSE 0

\* The routes OSRMv1._routeDone parses from a response with n routes: new
\* objects, written as the response they come from and their place in it,
\* without routesIndex
ParsedRoutes(result, n) ==
    [i \in 1..n |-> [result |-> result, index |-> i - 1, routesIndex |-> NoIdx]]

\* What Control and Itinerary keep about routes: Itinerary._routes,
\* Control._selectedRoute (<<>>: none), the route of Control._line and the
\* routes of the lines in Control._alternatives, options.showAlternatives,
\* the 'routeselected' events of the current handler, what the handler
\* threw, and the number of responses received.
InitAlts(showAlternatives) ==
    [routes |-> <<>>, selected |-> <<>>, line |-> <<>>, alternatives |-> <<>>,
     showAlternatives |-> showAlternatives, fired |-> <<>>, thrown |-> "none",
     results |-> 0]

\* The control record with the member alts added
WithAlts(c, a) ==
    [f \in DOMAIN c \cup {"alts"} |-> IF f = "alts" THEN a ELSE c[f]]

\* Control._updateLines({route, alternatives}); route is <<>> when the
\* caller found none, and the constructor of the line then throws after
\* the lines of the alternatives were made
_updateLinesOf(s, selected, alternatives) ==
    [s EXCEPT !.control.alts.alternatives = alternatives,
              !.control.alts.line = selected,
              !.control.alts.thrown = IF selected = <<>> THEN "TypeError" ELSE @]

\* Control._routeSelected, the control's 'routeselected' listener
_routeSelectedOf(s, e) ==
    _updateLinesOf([s EXCEPT !.control.alts.selected = e.route],
                   e.route,
                   IF s.control.alts.showAlternatives THEN e.alternatives ELSE <<>>)

\* fire('routeselected', e)
fireRouteSelected(s, e) ==
    _routeSelectedOf([s EXCEPT !.control.alts.fired = Append(@, e)], e)

\* alts.splice(i, 1)[0] on a copy of Itinerary._routes, and what is left
Spliced(routes, i) ==
    [route |-> IF i < Len(routes) THEN <<routes[i + 1]>> ELSE <<>>,
     alternatives |-> ArraySplice(routes, i, 1, <<>>)]

\* Itinerary.setAlternatives(routes)
setAlternativesOf(s, routes) ==
    fireRouteSelected([s EXCEPT !.control.alts.routes = routes],
                      [route |-> <<routes[1]>>, alternatives |-> Tail(routes)])

\* The callback of Control.route for a request without options.callback
\* and without geometryOnly, with the routes of the response: sets
\* routesIndex and hands them to setAlternatives
routesFound(s, routes) ==
    setAlternativesOf(s, [i \in 1..Len(routes) |->
                             [routes[i] EXCEPT !.routesIndex = Idx(i - 1)]])

\* The 'linetouched' listener of Control._hookAltEvents for the line of
\* the k-th alternative on the map
altLineTouched(s, k) ==
    fireRouteSelected(s,
        Spliced(s.control.alts.routes,
                ToInteger(s.control.alts.alternatives[k].routesIndex)))

\* Itinerary._onAltClicked for the j-th entry (0-based) of _altElements
_onAltClicked(s, j) ==
    fireRouteSelected(s, Spliced(s.control.alts.routes, j))

\* Control._updateLineCallback(null, routes): the lines are rebuilt from
\* the routes of a geometry-only response
_updateLineCallbackOf(s, routes) ==
    LET parts == Spliced(routes, ToInteger(s.control.alts.selected[1].routesIndex))
    IN  _updateLinesOf(s, parts.route,
                       IF s.control.alts.showAlternatives
                       THEN parts.alternatives ELSE <<>>)

\* The callback of Control._onZoomEnd, without error: copies the
\* properties onto this._routes[i], which throws for a response with more
\* routes than the control keeps, and rebuilds the lines
zoomRefined(s, routes) ==
    IF Len(routes) > Len(s.control.alts.routes)
    THEN [s EXCEPT !.control.alts.thrown = "TypeError"]
    ELSE _updateLineCallbackOf(s, routes)

\* Start of a handler of this part
BeginAlts(fn, args) ==
    [State EXCEPT !.control.alts.fired = <<>>,
                  !.control.alts.thrown = "none",
                  !.host.call = [fn |-> fn, args |-> args, result |-> NoResult]]

Received(s) == [s EXCEPT !.control.alts.results = @ + 1]

InitSelect ==
    /\ plan = InitPlan("dist", FALSE, FALSE, FALSE)
    /\ \E showAlternatives \in BOOLEAN :
          control = WithAlts(InitControl(TRUE, TRUE), InitAlts(showAlternatives))
    /\ router = InitRouter
    /\ host = InitHost

\* The response of a route() request arrives with n routes
RoutesFound ==
    /\ control.alts.results < MaxCount
    /\ \E n \in 1..MaxAlts :
          Commit(routesFound(Received(BeginAlts("routesFound", <<n>>)),
                             ParsedRoutes(control.alts.results + 1, n)))

\* The response of the request of a zoom end arrives with n routes
ZoomRefined ==
    /\ control.alts.selected # <<>>
    /\ control.alts.results < MaxCount
    /\ \E n \in 1..MaxAlts :
          Commit(zoomRefined(Received(BeginAlts("zoomRefined", <<n>>)),
                             ParsedRoutes(control.alts.results + 1, n)))

\* The response of a drag-time request arrives with n routes
DragRefined ==
    /\ control.alts.selected # <<>>
    /\ control.alts.results < MaxCount
    /\ \E n \in 1..MaxAlts :
          Commit(_updateLineCallbackOf(Received(BeginAlts("dragRefined", <<n>>)),
                                       ParsedRoutes(control.alts.results + 1, n)))

\* The line of an alternative is touched
AltLineTouched ==
    \E k \in 1..Len(control.alts.alternatives) :
        Commit(altLineTouched(BeginAlts("altLineTouched",
                                        <<control.alts.alternatives[k]>>), k))

\* An entry of the itinerary is clicked
AltClicked ==
    \E j \in 0..Len(control.alts.routes) - 1 :
        Commit(_onAltClicked(BeginAlts("altClicked", <<j>>), j))

NextSelect ==
    \/ RoutesFound
    \/ ZoomRefined
    \/ DragRefined
    \/ AltLineTouched
    \/ AltClicked

SpecSelect == InitSelect /\ [][NextSelect]_vars

\* The sequences a and b hold the same elements, each once
Permutation(a, b) ==
    /\ Len(a) = Len(b)
    /\ \A i \in 1..Len(a) : \E j \in 1..Len(b) : a[i] = b[j]
    /\ \A i, j \in 1..Len(a) : a[i] = a[j] => i = j

\* The handler fired one 'routeselected' whose route and alternatives are
\* together the routes of the latest result, the route being the selected
\* one
OneSelection ==
    /\ control.alts.thrown = "none"
    /\ Len(control.alts.fired) = 1
    /\ LET e == control.alts.fired[1]
       IN  /\ Len(e.route) = 1
           /\ Permutation(e.route \o e.alternatives, control.alts.routes)
           /\ control.alts.selected = e.route
           /\ control.alts.line = e.route

\* C36: after routes were found and after every selection of an
\* alternative, by a touch of its line or a click on its itinerary entry,
\* the route and the alternatives of 'routeselected' are together a
\* permutation of the routes of the latest result and the route is the
\* chosen one: the first of a new result, the one of the clicked entry,
\* the one the touched line shows.
C36_SelectedIsChosen ==
    LET e == control.alts.fired[1]
    IN  /\ host.call.fn = "routesFound" =>
              /\ OneSelection
              /\ Len(control.alts.routes) = host.call.args[1]
              /\ e.route[1] = control.alts.routes[1]
              /\ \A i \in 1..Len(control.alts.routes) :
                    control.alts.routes[i] =
                        [result |-> control.alts.results, index |-> i - 1,
                         routesIndex |-> Idx(i - 1)]
        /\ host.call.fn = "altClicked" =>
              /\ OneSelection
              /\ e.route[1] = control.alts.routes[host.call.args[1] + 1]
        /\ host.call.fn = "altLineTouched" =>
              /\ OneSelection
              /\ e.route[1].index = host.call.args[1].index

\* C36 without the choice by a touch of a line
C36_PermutationOfLatest ==
    LET e == control.alts.fired[1]
    IN  /\ host.call.fn = "routesFound" =>
              /\ OneSelection
              /\ e.route[1] = control.alts.routes[1]
        /\ host.call.fn = "altClicked" =>
              /\ OneSelection
              /\ e.route[1] = control.alts.routes[host.call.args[1] + 1]
        /\ host.call.fn = "altLineTouched" => OneSelection

\* C36, a case: the line of the second route of the response that
\* refined the lines was touched, and the first route is selected again.
C36_TouchedSecondSelectedFirst ==
    /\ host.call.fn = "altLineTouched"
    /\ host.call.args[1] = [result |-> 2, index |-> 1, routesIndex |-> NoIdx]
    /\ control.alts.selected = <<[result |-> 1, index |-> 0, routesIndex |-> Idx(0)]>>

\* C36 for the lines drawn when the routes were found: a touch of such a
\* line selects the route the line shows.
C36_TouchOfFoundLine ==
    (/\ host.call.fn = "altLineTouched"
     /\ host.call.args[1].routesIndex.defined)
        => /\ OneSelection
           /\ control.alts.fired[1].route[1] = host.call.args[1]

\* ------------------------------------------------ waypointMode 'snap'
\* A Routing Control with waypointMode 'snap', built with two waypoints
\* and put on the map (which sends the first request under autoRoute)
InitSnap ==
    \E autoRoute \in BOOLEAN :
        LET s0 == [plan |-> InitPlan("dist", FALSE, FALSE, TRUE),
                   control |-> [InitControl(FALSE, autoRoute)
                                   EXCEPT !.waypointMode = "snap"],
                   router |-> InitRouter, host |-> InitHost]
            s1 == constructed(setWaypoints(s0, <<RouteWaypoint, RouteWaypoint>>),
                              TRUE)
            s2 == Settled(onAdd(routeOnAdd(s1)))
        IN  /\ plan = s2.plan
            /\ control = s2.control
            /\ router = s2.router
            /\ host = s2.host

\* The locations the service snapped n input waypoints to
SnappedLocations(n) == [1..n -> Locations]

\* The response of request r arrives with a successful HTTP status; a
\* complete response tells the location of each waypoint
SnappedResponseLoads ==
    \E r \in 1..Len(router.reqs), text \in ResponseTexts :
        \E locations \in IF text.complete
                         THEN SnappedLocations(Len(router.reqs[r].wps))
                         ELSE {<<>>} :
            LET responseText == [text EXCEPT !.locations = locations]
            IN  /\ router.reqs[r].xhr = "open"
                /\ Commit(corsliteCallback(
                      [Begin("load") EXCEPT !.router.reqs[r].xhr = "loaded",
                                            !.router.reqs[r].response = responseText],
                      r, FALSE, NoName, responseText))

NextSnap ==
    \/ SetWaypoints
    \/ MarkerDragStart
    \/ MarkerDrag
    \/ MarkerDragEnd
    \/ Route
    \/ SnappedResponseLoads
    \/ TransportFails

SpecSnap == InitSnap /\ [][NextSnap]_vars

\* The requests whose 'routeselected' the step fired
SelectedIn(fired) ==
    {fired[k].request : k \in {j \in 1..Len(fired) : fired[j].type = "routeselected"}}

\* The step sent exactly one request
OneRequestSent ==
    /\ Len(router.reqs') = Len(router.reqs) + 1
    /\ control.requestCount' = control.requestCount + 1
    /\ Cardinality(StepFired("routingstart")) = 1

Without(a, i) ==
    [k \in 1..Len(a) - 1 |-> IF k <= i THEN a[k] ELSE a[k + 1]]

\* What the delete of the waypoint of 0-based index i leaves of a list
\* of more than two (the others in their order) and of two (two
\* waypoints, the other one at its index, none at index i with a
\* position, a plan that is not ready)
DeletedAt(i) ==
    LET before == plan.waypoints
        after == plan.waypoints'
    IN  /\ plan.thrown' = "none"
        /\ Len(before) > 2 => after = Without(before, i)
        /\ Len(before) = 2 =>
              /\ Len(after) = 2
              /\ after[2 - i] = before[2 - i]
              /\ after[i + 1].latLng = NoPos
              /\ ~isReady(State')

\* C38: the delete of waypoint i through its geocoder element removes
\* element i from a list of more than two waypoints and keeps the others
\* in their order; of a list of two it keeps the length and the other
\* waypoint at its index and leaves a waypoint without position at index
\* i, so that the plan is not ready afterwards.
C38_DeleteKeepsOthers ==
    [][(plan'.lastOp = "deleteWaypoint" /\ plan.startIndex' < Len(plan.waypoints))
          => DeletedAt(plan.startIndex')]_vars

\* C38 for the Plan of dist
C38_DeleteKeepsOthersDist ==
    [][(plan'.lastOp = "deleteWaypoint" /\ plan.startIndex' < Len(plan.waypoints)
           /\ plan.impl = "dist")
          => DeletedAt(plan.startIndex')]_vars

\* C38, a case: the first of the two waypoints of a Plan of plan.ts was
\* deleted, and a waypoint at the position [0, 0] stands in its place.
C38_DeletedFirstOfTwoHasPosition ==
    /\ plan.impl = "ts"
    /\ plan.lastOp = "deleteWaypoint"
    /\ plan.startIndex = 0
    /\ plan.thrown = "none"
    /\ plan.waypoints = <<Waypoint(Origin, NoName), Waypoint(Origin, NoName)>>
    /\ isReady(State)

\* ------------------------------------------------ add-waypoint button
\* What a click on the add button leaves of the list: the waypoints as
\* they were and one more at the end, without position
AppendedOne ==
    LET before == plan.waypoints
        after == plan.waypoints'
    IN  /\ plan.thrown' = "none"
        /\ Len(after) = Len(before) + 1
        /\ SubSeq(after, 1, Len(before)) = before
        /\ after[Len(after)].latLng = NoPos
        /\ ~isReady(State')

\* C39: the add-waypoint button appends exactly one waypoint without
\* position at the end of the list: one waypoint more, the others
\* unchanged and in their order, and the plan is not ready afterwards.
C39_AddAppendsOne ==
    [][plan'.lastOp = "addWaypoint" => AppendedOne]_vars

\* C39 for the Plan of dist
C39_AddAppendsOneDist ==
    [][(plan'.lastOp = "addWaypoint" /\ plan.impl = "dist") => AppendedOne]_vars

\* C39, a case: the add button of a Plan of plan.ts with two positioned
\* waypoints was clicked; the list has its two waypoints and the plan is
\* ready.
C39_AddedNothing ==
    /\ plan.impl = "ts"
    /\ plan.lastOp = "addWaypoint"
    /\ plan.thrown = "none"
    /\ Len(plan.waypoints) = 2
    /\ isReady(State)

\* ------------------------------------------------ Formatter.formatTime
\* Math.round(a / b) and Math.floor(a / b) of integers a >= 0, b > 0:
\* Math.round rounds a half upwards
RoundDiv(a, b) == (2 * a + b) \div (2 * b)

FloorDiv(a, b) == a \div b

\* A number followed by a unit name, as the text shows it: '5 min' with
\* un.minutes
Part(n, unit) == [n |-> n, unit |-> unit]

\* Formatter.formatTime(t): the text, written as its parts in order
formatTime(seconds) ==
    LET t == RoundDiv(seconds, 30) * 30
    IN  IF t > 86400
        THEN <<Part(RoundDiv(t, 3600), "hours")>>
        ELSE IF t > 3600
        THEN <<Part(FloorDiv(t, 3600), "hours"),
               Part(RoundDiv(t % 3600, 60), "minutes")>>
        ELSE IF t > 300
        THEN <<Part(RoundDiv(t, 60), "minutes")>>
        ELSE IF t > 60
        THEN <<Part(FloorDiv(t, 60), "minutes")>>
                 \o (IF t % 60 # 0 THEN <<Part(t % 60, "seconds")>> ELSE <<>>)
        ELSE <<Part(t, "seconds")>>

\* The host formats a duration of up to MaxSeconds seconds once.
InitTime ==
    /\ plan = InitPlan("dist", FALSE, FALSE, FALSE)
    /\ control = InitControl(FALSE, FALSE)
    /\ router = InitRouter
    /\ \E seconds \in 0..MaxSeconds :
          host = [InitHost EXCEPT !.call.args = <<seconds>>]

FormatTime ==
    /\ host.call.fn = "none"
    /\ host' = [host EXCEPT !.call.fn = "formatTime",
                            !.call.result = Returned(formatTime(host.call.args[1]))]
    /\ UNCHANGED <<plan, control, router>>

NextTime == FormatTime

SpecTime == InitTime /\ [][NextTime]_vars

\* The multiple of 30 nearest to the seconds, the upper one of two
Nearest30(seconds) ==
    CHOOSE t \in {30 * k : k \in (seconds \div 30)..(seconds \div 30 + 1)} :
        /\ 2 * (t - seconds) <= 30
        /\ 2 * (seconds - t) < 30

\* The text has the units given, in this order
HasUnits(text, units) ==
    /\ Len(text) = Len(units)
    /\ \A k \in 1..Len(text) : text[k].unit = units[k]

\* The text of the minutes-and-seconds form tells the rounded duration
\* with a seconds part of 0 (left out) or 30
MinutesAndSeconds(text, t) ==
    \/ HasUnits(text, <<"minutes">>) /\ text[1].n * 60 = t
    \/ /\ HasUnits(text, <<"minutes", "seconds">>)
       /\ text[2].n = 30
       /\ text[1].n * 60 + text[2].n = t

\* C40: formatTime rounds every non-negative whole number of seconds to
\* the nearest multiple of 30 and renders that duration consistently: in
\* the form of hours and minutes (3600 < t <= 86400) the minutes are
\* between 0 and 59, and in the form of minutes and seconds the seconds
\* are 0 or 30.
C40_ConsistentDuration ==
    host.call.fn = "formatTime" =>
        LET t == Nearest30(host.call.args[1])
            text == host.call.result.value
        IN  /\ (t > 3600 /\ t <= 86400) =>
                  /\ HasUnits(text, <<"hours", "minutes">>)
                  /\ text[2].n \in 0..59
                  /\ text[1].n = t \div 3600
            /\ (t > 60 /\ t <= 300) => MinutesAndSeconds(text, t)

\* C40 with up to 60 minutes in the form of hours and minutes
C40_MinutesUpToSixty ==
    host.call.fn = "formatTime" =>
        LET t == Nearest30(host.call.args[1])
            text == host.call.result.value
        IN  /\ (t > 3600 /\ t <= 86400) =>
                  /\ HasUnits(text, <<"hours", "minutes">>)
                  /\ text[2].n \in 0..60
                  /\ text[2].n = 60 <=> t % 3600 = 3570
                  /\ text[1].n = t \div 3600
            /\ (t > 60 /\ t <= 300) => MinutesAndSeconds(text, t)

\* C40, a case: 7170 seconds, one hour and fifty-nine and a half minutes,
\* are rendered as 1 hour 60 minutes.
C40_OneHourSixtyMinutes ==
    /\ host.call.fn = "formatTime"
    /\ host.call.args = <<7170>>
    /\ host.call.result.value = <<Part(1, "hours"), Part(60, "minutes")>>

====
